---------------------------- MODULE Spec2Model ----------------------------
(***************************************************************************)
(* Model of the pack3d-js packing engine: the worker's message handler,   *)
(* PackingWorker (container size search, placement heuristic) and         *)
(* PhysicsSolver (collision, bounds, gravity drop, stability).            *)
(*                                                                         *)
(* Numbers.  The code computes in IEEE doubles; the model computes in     *)
(* fixed point: a length is an integer number of thousandths of a world   *)
(* unit, so 1.0 is 1000, 0.001 is 1, 0.05 is 50, 0.1 is 100, 0.125 is    *)
(* 125 and 0.5 is 500.  A division the code performs on doubles is the    *)
(* floor division of the fixed-point values.  Areas are products of     *)
(* lengths.  Box volumes are counted in eighths of a cubic world unit.    *)
(*                                                                         *)
(* Inputs.  Box lists are lists of boxes with positive dimensions (the    *)
(* data model: quantity >= 1, dimensions > 0), the empty list included;   *)
(* a constraint is null or a positive length.                             *)
(*                                                                         *)
(* Non-finite doubles.  Math.max of an empty list is -Infinity, and the   *)
(* binary search then computes with -Infinity, Infinity and NaN.  These   *)
(* three doubles are integers set aside for them, and the operations the  *)
(* search applies to them follow IEEE 754.                                *)
(*                                                                         *)
(* Specifications.  Spec and LiveSpec are the worker's message handler;   *)
(* CallSpec is attemptPacking called directly on one PackingWorker, with  *)
(* optimize calls in between; SortSpec is one boxList.sort of              *)
(* attemptPacking, comparison by comparison; PageSpec is the page's       *)
(* AppState, its Optimize button and PackingOptimizer; SearchSpec and     *)
(* DropSpec are binarySearchDimension and dropBox on doubles so large     *)
(* that the steps 0.05, 0.1 and 0.5 are below their spacing;              *)
(* StabilitySpec is isValidPlacement called on one box; VariantSpec is    *)
(* the handler followed by the worker of PackingOptimizer.js on the same  *)
(* input.                                                                 *)
(***************************************************************************)
EXTENDS Integers, Sequences, FiniteSets, TLC

\* ---------------------------------------------------------------- numbers

\* A constraint axis: null (free) or a number.
Free == [null |-> TRUE]
Fixed(v) == [null |-> FALSE, value |-> v]

\* constraint || fallback: null and 0 are falsy.
orElse(c, fallback) == IF c.null THEN fallback
                       ELSE IF c.value = 0 THEN fallback ELSE c.value

Max2(a, b) == IF a >= b THEN a ELSE b
Min2(a, b) == IF a <= b THEN a ELSE b
Abs(a) == IF a >= 0 THEN a ELSE -a

\* Math.ceil(a / b) for b > 0.
CeilDiv(a, b) == -((-a) \div b)

Axes == <<"width", "height", "depth">>

\* The non-finite doubles.
NegInfinity == -1000000000
PosInfinity == 1000000000
NaN == 1000000001

isFinite(a) == a # NegInfinity /\ a # PosInfinity /\ a # NaN

\* a + b on doubles.
plus(a, b) ==
    IF a = NaN \/ b = NaN THEN NaN
    ELSE IF a = NegInfinity THEN (IF b = PosInfinity THEN NaN ELSE NegInfinity)
    ELSE IF a = PosInfinity THEN (IF b = NegInfinity THEN NaN ELSE PosInfinity)
    ELSE IF ~isFinite(b) THEN b
    ELSE a + b

\* -a on doubles.
negate(a) ==
    IF a = NaN THEN NaN
    ELSE IF a = NegInfinity THEN PosInfinity
    ELSE IF a = PosInfinity THEN NegInfinity
    ELSE -a

\* a - b on doubles.
minus(a, b) == plus(a, negate(b))

\* a * k and a / k on doubles for a finite k > 0 (the division floored).
scale(a, k) == IF isFinite(a) THEN a * k ELSE a
divide(a, k) == IF isFinite(a) THEN a \div k ELSE a

\* a > b on doubles: false when either is NaN.
greater(a, b) == a # NaN /\ b # NaN /\ a > b

\* ------------------------------------------------------- PhysicsSolver

\* checkCollision: strict interior overlap on all three axes.
\* The half extents are written as in the code (center +/- size / 2).
checkCollision(box1, box2) ==
    LET b1MinX == box1.x - box1.width \div 2
        b1MaxX == box1.x + box1.width \div 2
        b1MinY == box1.y - box1.height \div 2
        b1MaxY == box1.y + box1.height \div 2
        b1MinZ == box1.z - box1.depth \div 2
        b1MaxZ == box1.z + box1.depth \div 2
        b2MinX == box2.x - box2.width \div 2
        b2MaxX == box2.x + box2.width \div 2
        b2MinY == box2.y - box2.height \div 2
        b2MaxY == box2.y + box2.height \div 2
        b2MinZ == box2.z - box2.depth \div 2
        b2MaxZ == box2.z + box2.depth \div 2
        overlapX == b1MaxX > b2MinX /\ b1MinX < b2MaxX
        overlapY == b1MaxY > b2MinY /\ b1MinY < b2MaxY
        overlapZ == b1MaxZ > b2MinZ /\ b1MinZ < b2MaxZ
    IN  overlapX /\ overlapY /\ overlapZ

\* checkCollisionWithList returning from inside the loop: only the first box
\* of the list is tested.
checkCollisionWithFirst(box, boxList) ==
    Len(boxList) > 0 /\ checkCollision(box, boxList[1])

\* checkCollisionWithList
checkCollisionWithList(box, boxList) ==
    \E i \in 1..Len(boxList) : checkCollision(box, boxList[i])

\* isWithinContainer: the six faces inside [-W/2, W/2] x [0, H] x [-D/2, D/2].
isWithinContainer(box, container) ==
    LET boxMinX == box.x - box.width \div 2
        boxMaxX == box.x + box.width \div 2
        boxMinY == box.y - box.height \div 2
        boxMaxY == box.y + box.height \div 2
        boxMinZ == box.z - box.depth \div 2
        boxMaxZ == box.z + box.depth \div 2
        containerMinX == -(container.width \div 2)
        containerMaxX == container.width \div 2
        containerMinY == 0
        containerMaxY == container.height
        containerMinZ == -(container.depth \div 2)
        containerMaxZ == container.depth \div 2
    IN  /\ boxMinX >= containerMinX
        /\ boxMaxX <= containerMaxX
        /\ boxMinY >= containerMinY
        /\ boxMaxY <= containerMaxY
        /\ boxMinZ >= containerMinZ
        /\ boxMaxZ <= containerMaxZ

\* dropBox: test y0, y0 - 0.5, ... while testY > height / 2; at the first
\* colliding testY return testY + 0.1, else height / 2 + 0.001.
RECURSIVE dropLoop(_, _, _)
dropLoop(box, placedBoxes, testY) ==
    LET minY == box.height \div 2
    IN  IF testY > minY
        THEN IF checkCollisionWithList([box EXCEPT !.y = testY], placedBoxes)
             THEN testY + 100
             ELSE dropLoop(box, placedBoxes, testY - 500)
        ELSE minY + 1

dropBox(box, placedBoxes, container) == dropLoop(box, placedBoxes, box.y)

\* The x/z overlap area of box with placedBox when placedBox's top face is
\* within supportThreshold (0.5) of box's bottom face, else 0.
supportFrom(box, placedBox) ==
    LET boxBottomY  == box.y - box.height \div 2
        placedTopY  == placedBox.y + placedBox.height \div 2
        overlapMinX == Max2(box.x - box.width \div 2, placedBox.x - placedBox.width \div 2)
        overlapMaxX == Min2(box.x + box.width \div 2, placedBox.x + placedBox.width \div 2)
        overlapMinZ == Max2(box.z - box.depth \div 2, placedBox.z - placedBox.depth \div 2)
        overlapMaxZ == Min2(box.z + box.depth \div 2, placedBox.z + placedBox.depth \div 2)
    IN  IF /\ Abs(placedTopY - boxBottomY) < 500
           /\ overlapMaxX > overlapMinX
           /\ overlapMaxZ > overlapMinZ
        THEN (overlapMaxX - overlapMinX) * (overlapMaxZ - overlapMinZ)
        ELSE 0

\* floor(1000 * s / a) for 0 <= s, 0 < a, computed in two steps so that no
\* intermediate product leaves the 32-bit range.
PerMille(s, a) ==
    LET q  == s \div a
        r  == s % a
        d1 == (r * 100) \div a
        r1 == (r * 100) % a
        d2 == (r1 * 10) \div a
    IN  q * 1000 + d1 * 10 + d2

RECURSIVE supportedArea(_, _, _)
supportedArea(box, placedBoxes, i) ==
    IF i > Len(placedBoxes) THEN 0
    ELSE supportFrom(box, placedBoxes[i]) + supportedArea(box, placedBoxes, i + 1)

\* calculateStability without the cantilever penalty.
calculateStabilityNoPenalty(box, placedBoxes, container) ==
    LET boxBottomY == box.y - box.height \div 2
        bottomArea == box.width * box.depth
        supported  == supportedArea(box, placedBoxes, 1)
    IN  IF Abs(boxBottomY) < 100 THEN 1000
        ELSE Min2(PerMille(supported, bottomArea), 1000)

\* calculateStability, in thousandths (1.0 is 1000): 1.0 on the floor, else
\* min(supportedArea / bottomArea, 1), halved when below 0.5.
calculateStability(box, placedBoxes, container) ==
    LET boxBottomY == box.y - box.height \div 2
        bottomArea == box.width * box.depth
        supported  == supportedArea(box, placedBoxes, 1)
        stability  == Min2(PerMille(supported, bottomArea), 1000)
    IN  IF Abs(boxBottomY) < 100 THEN 1000
        ELSE IF stability < 500 THEN stability \div 2
        ELSE stability

\* isValidPlacement without the stability test.
isValidPlacementNoStability(box, placedBoxes, container, minStability) ==
    /\ isWithinContainer(box, container)
    /\ ~checkCollisionWithList(box, placedBoxes)

\* isValidPlacement(box, placedBoxes, container, minStability); minStability
\* in thousandths.
isValidPlacement(box, placedBoxes, container, minStability) ==
    /\ isWithinContainer(box, container)
    /\ ~checkCollisionWithList(box, placedBoxes)
    /\ LET bottomY == box.y - box.height \div 2
       IN  bottomY > 100 =>
             calculateStability(box, placedBoxes, container) >= minStability

\* --------------------------------------------------- placement heuristic

\* findPlacement returns null when no candidate validates.
NoPlacement == [null |-> TRUE]

\* getUniqueOrientations: the six axis permutations in the code's order,
\* de-duplicated by value, first occurrence kept.
RECURSIVE uniqueFrom(_, _, _)
uniqueFrom(permutations, i, unique) ==
    IF i > Len(permutations) THEN unique
    ELSE IF \E j \in 1..Len(unique) : unique[j] = permutations[i]
         THEN uniqueFrom(permutations, i + 1, unique)
         ELSE uniqueFrom(permutations, i + 1, Append(unique, permutations[i]))

getUniqueOrientations(box) ==
    LET w == box.width
        h == box.height
        d == box.depth
        permutations ==
          << [width |-> w, height |-> h, depth |-> d],
             [width |-> w, height |-> d, depth |-> h],
             [width |-> h, height |-> w, depth |-> d],
             [width |-> h, height |-> d, depth |-> w],
             [width |-> d, height |-> w, depth |-> h],
             [width |-> d, height |-> h, depth |-> w] >>
    IN  uniqueFrom(permutations, 1, <<>>)

\* A candidate position tagged with the orientation it was generated for.
Cand(x, y, z, skip, o) ==
    [x |-> x, y |-> y, z |-> z, skipGravity |-> skip,
     width |-> o.width, height |-> o.height, depth |-> o.depth]

\* The eleven candidates generateCandidatePositions adds for one placed box.
aroundPlaced(box, placedBox) ==
    LET topY == placedBox.y + placedBox.height \div 2 + box.height \div 2
        dx4  == (placedBox.width - box.width) \div 4
        dz4  == (placedBox.depth - box.depth) \div 4
        sx   == placedBox.width \div 2 + box.width \div 2
        sz   == placedBox.depth \div 2 + box.depth \div 2
    IN  << Cand(placedBox.x, topY, placedBox.z, TRUE, box),
           Cand(placedBox.x + dx4, topY, placedBox.z, TRUE, box),
           Cand(placedBox.x - dx4, topY, placedBox.z, TRUE, box),
           Cand(placedBox.x, topY, placedBox.z + dz4, TRUE, box),
           Cand(placedBox.x, topY, placedBox.z - dz4, TRUE, box),
           Cand(placedBox.x + sx, placedBox.y, placedBox.z, FALSE, box),
           Cand(placedBox.x, placedBox.y, placedBox.z + sz, FALSE, box),
           Cand(placedBox.x + sx, placedBox.y, placedBox.z + sz, FALSE, box),
           Cand(placedBox.x - sx, placedBox.y, placedBox.z + sz, FALSE, box),
           Cand(placedBox.x + sx, placedBox.y, placedBox.z - sz, FALSE, box),
           Cand(placedBox.x - sx, placedBox.y, placedBox.z - sz, FALSE, box) >>

RECURSIVE aroundAll(_, _, _)
aroundAll(box, placedBoxes, i) ==
    IF i > Len(placedBoxes) THEN <<>>
    ELSE aroundPlaced(box, placedBoxes[i]) \o aroundAll(box, placedBoxes, i + 1)

\* The floor grid: gridSteps x gridSteps positions, ix outer, iz inner.
gridSteps == 5

gridCandidates(box, container) ==
    [k \in 1..(gridSteps * gridSteps) |->
        LET ix == (k - 1) \div gridSteps
            iz == (k - 1) % gridSteps
        IN  Cand(-(container.width \div 2)
                   + ((2 * ix + 1) * container.width) \div (2 * gridSteps),
                 box.height \div 2,
                 -(container.depth \div 2)
                   + ((2 * iz + 1) * container.depth) \div (2 * gridSteps),
                 FALSE, box)]

\* Candidate generation that offers the floor corner only.
generateCandidatePositionsCornerOnly(box, placedBoxes, container) ==
    << Cand(-(container.width \div 2) + box.width \div 2,
            box.height \div 2,
            -(container.depth \div 2) + box.depth \div 2,
            FALSE, box) >>

\* Candidate generation that leaves out the floor corner.
generateCandidatePositionsNoCorner(box, placedBoxes, container) ==
    aroundAll(box, placedBoxes, 1) \o gridCandidates(box, container)

\* generateCandidatePositions: floor corner, eleven per placed box, the grid.
generateCandidatePositions(box, placedBoxes, container) ==
    << Cand(-(container.width \div 2) + box.width \div 2,
            box.height \div 2,
            -(container.depth \div 2) + box.depth \div 2,
            FALSE, box) >>
    \o aroundAll(box, placedBoxes, 1)
    \o gridCandidates(box, container)

\* The comparator of candidates.sort: y, then z, then x, differences up to
\* sortEpsilon (0.001) being ties.
sortEpsilon == 1

\* A comparator that looks at x before z.
candidateCompareXFirst(a, b) ==
    IF Abs(a.y - b.y) > sortEpsilon THEN a.y - b.y
    ELSE IF Abs(a.x - b.x) > sortEpsilon THEN a.x - b.x
    ELSE IF Abs(a.z - b.z) > sortEpsilon THEN a.z - b.z
    ELSE 0

candidateCompare(a, b) ==
    IF Abs(a.y - b.y) > sortEpsilon THEN a.y - b.y
    ELSE IF Abs(a.z - b.z) > sortEpsilon THEN a.z - b.z
    ELSE IF Abs(a.x - b.x) > sortEpsilon THEN a.x - b.x
    ELSE 0

candidateBefore(a, b) == candidateCompare(a, b) < 0

\* Array.prototype.sort is stable: SortSeq moves an element only in front of
\* the elements it is strictly before.
sortCandidates(candidates) == SortSeq(candidates, candidateBefore)

RECURSIVE allCandidates(_, _, _, _)
allCandidates(orientations, placedBoxes, container, i) ==
    IF i > Len(orientations) THEN <<>>
    ELSE generateCandidatePositions(orientations[i], placedBoxes, container)
         \o allCandidates(orientations, placedBoxes, container, i + 1)

\* The condition under which findPlacement drops a candidate (line 318);
\* testBox.height is the height of the candidate's orientation.
gravityApplies(candidate) ==
    candidate.y > candidate.height /\ ~candidate.skipGravity

\* The testBox findPlacement builds for a candidate, gravity applied.
testBoxOf(box, candidate, placedBoxes, container) ==
    LET testBox == [instanceId |-> box.instanceId,
                    definitionId |-> box.definitionId,
                    x |-> candidate.x, y |-> candidate.y, z |-> candidate.z,
                    width |-> candidate.width, height |-> candidate.height,
                    depth |-> candidate.depth]
    IN  IF gravityApplies(candidate)
        THEN [testBox EXCEPT !.y = dropBox(testBox, placedBoxes, container)]
        ELSE testBox

minStability == 200

\* The scan of candidates lo..hi in order, stopping at the first that
\* validates (lines 305-325); the range is halved to keep the evaluation
\* shallow, each candidate being tried once and in order.
RECURSIVE firstValidIn(_, _, _, _, _, _)
firstValidIn(box, candidates, placedBoxes, container, lo, hi) ==
    IF lo = hi
    THEN LET testBox == testBoxOf(box, candidates[lo], placedBoxes, container)
         IN  IF isValidPlacement(testBox, placedBoxes, container, minStability)
             THEN testBox
             ELSE NoPlacement
    ELSE LET mid == (lo + hi) \div 2
             left == firstValidIn(box, candidates, placedBoxes, container, lo, mid)
         IN  IF left # NoPlacement THEN left
             ELSE firstValidIn(box, candidates, placedBoxes, container,
                               mid + 1, hi)

firstValid(box, candidates, placedBoxes, container, i) ==
    IF i > Len(candidates) THEN NoPlacement
    ELSE firstValidIn(box, candidates, placedBoxes, container, i,
                      Len(candidates))

\* A findPlacement that tries every orientation whatever allowRotation says.
findPlacementRotating(box, placedBoxes, container, allowRotation) ==
    firstValid(box,
               sortCandidates(allCandidates(getUniqueOrientations(box),
                                            placedBoxes, container, 1)),
               placedBoxes, container, 1)

\* findPlacement(box, placedBoxes, container, seed); the seed is not read.
findPlacement(box, placedBoxes, container, allowRotation) ==
    LET orientations == IF allowRotation THEN getUniqueOrientations(box)
                        ELSE << [width |-> box.width, height |-> box.height,
                                 depth |-> box.depth] >>
        candidates == sortCandidates(
                        allCandidates(orientations, placedBoxes, container, 1))
    IN  firstValid(box, candidates, placedBoxes, container, 1)

\* The loop of attemptPacking over the sorted box list.
RECURSIVE placeAll(_, _, _, _, _)
placeAll(boxList, i, placedBoxes, container, allowRotation) ==
    IF i > Len(boxList) THEN placedBoxes
    ELSE LET placement == findPlacement(boxList[i], placedBoxes, container,
                                        allowRotation)
         IN  placeAll(boxList, i + 1,
                      IF placement = NoPlacement THEN placedBoxes
                      ELSE Append(placedBoxes, placement),
                      container, allowRotation)

\* A box's volume, in eighths of a cubic world unit (box dimensions are
\* multiples of 0.5).
volume(box) == (box.width \div 500) * (box.height \div 500) * (box.depth \div 500)

\* boxList.sort((a, b) => getScore(b) - getScore(a)) with no noise: stable,
\* descending volume.
volumeBefore(a, b) == volume(a) > volume(b)

sortByVolume(boxes) == SortSeq(boxes, volumeBefore)

\* With noise (useNoise and seed > 0) getScore draws a fresh random value at
\* every call of the comparator, so the comparator is not consistent and the
\* order the sort leaves is implementation-defined.  The orders the model
\* allows are the permutations in which no box directly precedes a box that
\* beats it for every noise value (0.8 * volume >= 1.2 * volume).
noisyOrders(boxes) ==
    IF \A i \in 1..Len(boxes) : boxes[i] = boxes[1]
    THEN {boxes}   \* every permutation of equal elements is the list itself
    ELSE
    { [k \in 1..Len(boxes) |-> boxes[p[k]]] : p \in
        { q \in Permutations(1..Len(boxes)) :
            \A k \in 1..(Len(boxes) - 1) :
                ~(8 * volume(boxes[q[k + 1]]) >= 12 * volume(boxes[q[k]])) } }

\* Noise applied whatever the seed.
boxOrdersNoisyAtZero(boxes, seed, useNoise) ==
    IF useNoise THEN noisyOrders(boxes) ELSE {sortByVolume(boxes)}

\* Noise applied for every seed above 0, whatever useNoise says.
boxOrdersNoisyWithoutFlag(boxes, seed, useNoise) ==
    IF seed > 0 THEN noisyOrders(boxes) ELSE {sortByVolume(boxes)}

\* The orders in which attemptPacking may process the boxes for a seed.
boxOrders(boxes, seed, useNoise) ==
    IF useNoise /\ seed > 0 THEN noisyOrders(boxes) ELSE {sortByVolume(boxes)}

\* The sort is a function of the list and the seed: random() is a closure
\* over the local seed (lines 236-240) and the sort algorithm is fixed, so
\* the same list and seed leave the same order at every call.  memo holds
\* the orders the engine's sort has left so far.
knownOrders(memo, boxes, seed) ==
    { m.order : m \in { k \in memo : k.boxes = boxes /\ k.seed = seed } }

\* A sort that may leave another order each time it is called.
sortOrdersAfresh(memo, boxes, seed, useNoise) ==
    boxOrders(boxes, seed, useNoise)

sortOrders(memo, boxes, seed, useNoise) ==
    IF knownOrders(memo, boxes, seed) # {} /\ useNoise /\ seed > 0
    THEN knownOrders(memo, boxes, seed)
    ELSE boxOrders(boxes, seed, useNoise)

rememberOrder(memo, boxes, seed, useNoise, order) ==
    IF useNoise /\ seed > 0
    THEN memo \cup {[boxes |-> boxes, seed |-> seed, order |-> order]}
    ELSE memo

\* attemptPacking for one processing order.
attemptPacking(boxList, container, allowRotation) ==
    placeAll(boxList, 1, <<>>, container, allowRotation)

\* ------------------------------------- the worker of PackingOptimizer.js

\* random() of shuffleArray for the seeds 0..47: the fraction of
\* Math.sin(seed) * 10000, in millionths (PackingOptimizer.js lines 421-424).
randomSin(seed) ==
    <<
       0, 709848, 974268, 200080, 975046, 757253, 845018, 865987,
       582466, 184852, 788891, 97934, 270819, 670368, 73556, 878401,
       966833, 25081, 127532, 772096, 452507, 556385, 486907, 795958,
       216379, 482499, 584504, 759284, 57883, 661157, 683759, 623546,
       266812, 118601, 826861, 173305, 211465, 618666, 685787, 953862,
       131604, 773311, 784520, 252573, 19251, 35245, 883476, 731227 >>[seed + 1]

\* shuffleArray's loop (lines 426-431): i = Math.floor(random() * m--), then
\* array[m] and array[i] change places.
RECURSIVE shuffleFrom(_, _, _)
shuffleFrom(array, m, seed) ==
    IF m = 0 THEN array
    ELSE LET i == (randomSin(seed) * m) \div 1000000
         IN  shuffleFrom([array EXCEPT ![m] = array[i + 1], ![i + 1] = array[m]],
                         m - 1, seed + 1)

shuffleArray(array, seed) == shuffleFrom(array, Len(array), seed)

\* findPlacement of PackingOptimizer.js (lines 298-322): the candidates in
\* shuffled order, the first that validates.
simpleFindPlacement(box, placedBoxes, container, seed) ==
    firstValid(box,
               shuffleArray(generateCandidatePositions(box, placedBoxes, container),
                            seed + box.instanceId),
               placedBoxes, container, 1)

RECURSIVE simplePlaceAll(_, _, _, _, _)
simplePlaceAll(boxList, i, placedBoxes, container, seed) ==
    IF i > Len(boxList) THEN placedBoxes
    ELSE LET placement == simpleFindPlacement(boxList[i], placedBoxes,
                                              container, seed)
         IN  simplePlaceAll(boxList, i + 1,
                            IF placement = NoPlacement THEN placedBoxes
                            ELSE Append(placedBoxes, placement),
                            container, seed)

\* attemptPacking of PackingOptimizer.js (lines 276-296): shuffle, stable
\* sort by descending volume, place in that order.
simpleAttemptPacking(boxes, container, seed) ==
    simplePlaceAll(sortByVolume(shuffleArray(boxes, seed)), 1, <<>>,
                   container, seed)

\* ------------------------------------------------- container size search

\* unconstrainedDims: the axes whose constraint is null, in the order width,
\* height, depth.
isFree(constraints, dim) == constraints[dim].null

unconstrainedDimsOf(constraints) ==
    SelectSeq(Axes, LAMBDA dim : isFree(constraints, dim))

RECURSIVE totalVolumeFrom(_, _)
totalVolumeFrom(boxes, i) ==
    IF i > Len(boxes) THEN 0 ELSE volume(boxes[i]) + totalVolumeFrom(boxes, i + 1)

\* boxes.reduce(... width * height * depth), in eighths of a cubic unit.
totalVolume(boxes) == totalVolumeFrom(boxes, 1)

RECURSIVE maxDimFrom(_, _, _)
maxDimFrom(boxes, dim, i) ==
    IF i > Len(boxes) THEN NegInfinity
    ELSE Max2(boxes[i][dim], maxDimFrom(boxes, dim, i + 1))

\* The largest, over the boxes, of a box's smallest extent: the least size
\* of an axis under which every box fits in some orientation.
RECURSIVE maxLeastFrom(_, _)
maxLeastFrom(boxes, i) ==
    IF i > Len(boxes) THEN NegInfinity
    ELSE LET b == boxes[i]
             least == IF b.width <= b.height /\ b.width <= b.depth THEN b.width
                      ELSE IF b.height <= b.depth THEN b.height
                      ELSE b.depth
         IN  Max2(least, maxLeastFrom(boxes, i + 1))

maxBoxDimsRotated(boxes) ==
    [dim \in {"width", "height", "depth"} |-> maxLeastFrom(boxes, 1)]

\* maxBoxDims: Math.max over the box list, -Infinity when the list is empty.
maxBoxDims(boxes) ==
    [dim \in {"width", "height", "depth"} |-> maxDimFrom(boxes, dim, 1)]

RECURSIVE power(_, _)
power(k, n) == IF n = 0 THEN 1 ELSE k * power(k, n - 1)

\* Math.ceil(Math.pow(totalVolume * 1.1 / constrainedVolume, 1 / n)): the
\* least whole number k of world units with
\*     k^n * constrainedVolume >= 1.1 * totalVolume,
\* computed on integers: the volume in eighths, each constraint counted in
\* fortieths of a unit (constraints are multiples of 0.025).
RECURSIVE leastRoot(_, _, _, _)
leastRoot(k, n, lhsUnit, rhs) ==
    IF power(k, n) * lhsUnit >= rhs THEN k ELSE leastRoot(k + 1, n, lhsUnit, rhs)

ceilVolumePerDim(boxes, constraints) ==
    LET n == Len(unconstrainedDimsOf(constraints))
        c(dim) == IF isFree(constraints, dim) THEN 1
                  ELSE orElse(constraints[dim], 1000) \div 25
        f(dim) == IF isFree(constraints, dim) THEN 1 ELSE 40
        lhsUnit == 80 * c("width") * c("height") * c("depth")
        rhs == 11 * totalVolume(boxes) * f("width") * f("height") * f("depth")
    IN  leastRoot(0, n, lhsUnit, rhs)

\* The container findMinimumContainer starts the search with (lines 66-93).
initialContainer(boxes, constraints) ==
    LET maxDims == maxBoxDims(boxes)
    IN  [dim \in {"width", "height", "depth"} |->
           IF isFree(constraints, dim)
           THEN Max2(maxDims[dim], 1000 * ceilVolumePerDim(boxes, constraints))
           ELSE orElse(constraints[dim], maxDims[dim])]

\* Program constants of the search.
searchEpsilon == 50
MAX_EXPANSION_ATTEMPTS == 20
increment == 125

\* Math.floor(dimStartProgress) with dimStartProgress = 10 + dimIndex * (40 / n).
dimStartProgressFloor(dimIdx, n) == (10 * n + 40 * dimIdx) \div n

\* Math.floor(progressBase + (1 - currentRange / initialRange) * progressRange).
\* Infinity / Infinity is NaN, and NaN stays NaN through the sum and
\* Math.floor; a finite range over Infinity is 0.
searchProgress(dimIdx, n, currentRange, initRange) ==
    IF isFinite(currentRange) /\ isFinite(initRange)
    THEN (10 * n * initRange + 40 * dimIdx * initRange
            + 40 * (initRange - currentRange)) \div (n * initRange)
    ELSE IF isFinite(currentRange) THEN dimStartProgressFloor(dimIdx + 1, n)
    ELSE NaN

\* 50 + Math.floor((i / iterations) * 10)
finalProgress(idx, iterations) == 50 + (idx * 10) \div iterations

\* 60 + Math.floor((attempts / MAX_EXPANSION_ATTEMPTS) * 30)
expansionProgress(att) == 60 + (att * 30) \div MAX_EXPANSION_ATTEMPTS

\* The largest power of two that is at most n (n >= 1): the binade of n.
RECURSIVE binadeOf(_, _)
binadeOf(n, p) == IF 2 * p > n THEN p ELSE binadeOf(n, 2 * p)

\* currentContainer[dim] * 1.1 in double arithmetic lands just above a whole
\* number when the exact product is whole: the double 1.1 exceeds 11/10 by
\* 0.4 ulp, so the product of v whole units rounds up to the next double when
\* 0.8 * v is more than the binade of the product.  Only then does Math.ceil
\* differ from the ceiling of the exact product.
productAboveWhole(v) ==
    /\ v % 10000 = 0
    /\ v > 0
    /\ 4 * (v \div 1000) > 5 * binadeOf((11 * v) \div 10000, 1)

\* One expansion of an unconstrained axis: Math.ceil(v * 1.1), plus one when
\* the result equals itself divided by 1.1 (only zero does).
expandDim(v) ==
    LET exact == 1000 * CeilDiv(v * 11, 10000)
        grown == IF productAboveWhole(v) THEN exact + 1000 ELSE exact
    IN  IF grown * 10 = grown * 11 THEN grown + 1000 ELSE grown

expandContainerAllAxes(container, constraints) ==
    [dim \in {"width", "height", "depth"} |-> expandDim(container[dim])]

expandContainer(container, constraints) ==
    [dim \in {"width", "height", "depth"} |->
        IF isFree(constraints, dim) THEN expandDim(container[dim])
        ELSE container[dim]]

\* number.toFixed(4) parsed back: the nearest multiple of 0.0001, here on a
\* value given in hundred-thousandths of a unit (halves round up).
toFixed4(v) == 10 * ((v + 5) \div 10)

\* The final rounding of one axis in hundred-thousandths of a unit:
\* Math.ceil(v / 0.125) * 0.125, then toFixed(4).
roundFine(v) == toFixed4(CeilDiv(v, 100 * increment) * (100 * increment))

\* The rounding taken to the nearest increment instead of up.
roundDimNearest(v) ==
    IF isFinite(v) THEN increment * ((2 * v + increment) \div (2 * increment))
    ELSE v

\* The final rounding of an axis given in thousandths.
roundDim(v) == IF isFinite(v) THEN roundFine(100 * v) \div 100 ELSE v

roundContainer(container) ==
    [dim \in {"width", "height", "depth"} |-> roundDim(container[dim])]

\* The update recording mid as bestFit whether or not the probe succeeded.
afterProbeAlwaysBest(s, success) ==
    IF success
    THEN [s EXCEPT !.bestFit = s.mid, !.high = s.mid, !.anySuccess = TRUE]
    ELSE [s EXCEPT !.bestFit = s.mid, !.low = plus(s.mid, searchEpsilon)]

\* One iteration's update of binarySearchDimension's low, high and bestFit
\* (lines 221-226): success narrows the upper bound and records mid,
\* failure raises the lower bound.
afterProbe(s, success) ==
    IF success
    THEN [s EXCEPT !.bestFit = s.mid, !.high = s.mid, !.anySuccess = TRUE]
    ELSE [s EXCEPT !.low = plus(s.mid, searchEpsilon)]

\* The container a probe tests: { ...baseContainer, [searchDim]: mid }.
testContainer(baseContainer, searchDim, m) == [baseContainer EXCEPT ![searchDim] = m]

\* ------------------------------------------------------------- messages

ProgressMsg(p) == [type |-> "progress", progress |-> p]
CompleteMsg(r) == [type |-> "complete", result |-> r]
ErrorMsg == [type |-> "error"]

\* findMinimumContainer's return value; the code has no path returning null.
NullResult == [null |-> TRUE]

\* optimize's return value for findMinimumContainer's result (lines 30-45);
\* executionTime is left out.
optimizeReturn(fmc) ==
    IF fmc = NullResult
    THEN [success |-> FALSE, error |-> "Could not find valid packing"]
    ELSE [success |-> TRUE, container |-> fmc.container,
          placedBoxes |-> fmc.placedBoxes]

\* A catch clause that swallows the exception.
onThrowSilent(posted) == posted

\* The catch clause of self.onmessage: one error message.
onThrow(posted) == Append(posted, ErrorMsg)

\* The end of the try block of self.onmessage: one complete message.
onReturn(posted, r) == Append(posted, CompleteMsg(r))

\* ---------------------------------------------------------------- inputs

\* Bounds of the model.
MaxSearchAttempts == 2
MaxFinalAttempts == 2
MaxOther == 1

Box(id, def, w, h, d) ==
    [instanceId |-> id, definitionId |-> def, width |-> w, height |-> h, depth |-> d]

Constraints(w, h, d) == [width |-> w, height |-> h, depth |-> d]

\* The box lists and constraints of the runs.
Scenarios ==
    { \* one unit cube, height and depth fixed to 1
      [boxes |-> << Box(0, 1, 1000, 1000, 1000) >>,
       constraints |-> Constraints(Free, Fixed(1000), Fixed(1000))],
      \* three unit cubes on a 1 x 1 footprint: they stack
      [boxes |-> << Box(0, 1, 1000, 1000, 1000), Box(1, 1, 1000, 1000, 1000),
                    Box(2, 1, 1000, 1000, 1000) >>,
       constraints |-> Constraints(Fixed(1000), Free, Fixed(1000))],
      \* a 1 x 2 x 1 column and a cube on a 2 x 1 footprint
      [boxes |-> << Box(0, 1, 1000, 2000, 1000), Box(1, 2, 1000, 1000, 1000) >>,
       constraints |-> Constraints(Fixed(2000), Free, Fixed(1000))],
      \* a 1 x 3 x 1 column and a cube, all axes fixed: the cube is dropped
      [boxes |-> << Box(0, 1, 1000, 1000, 1000), Box(1, 2, 1000, 3000, 1000) >>,
       constraints |-> Constraints(Fixed(2000), Fixed(3000), Fixed(1000))],
      \* a 2 x 2 x 2 box in a fixed 1 x 1 x 1 container: nothing fits
      [boxes |-> << Box(0, 1, 2000, 2000, 2000) >>,
       constraints |-> Constraints(Fixed(1000), Fixed(1000), Fixed(1000))],
      \* the same box, width free, depth fixed to 1.1: nothing ever fits
      [boxes |-> << Box(0, 1, 2000, 2000, 2000) >>,
       constraints |-> Constraints(Free, Fixed(1000), Fixed(1100))],
      \* two cubes, all axes free
      [boxes |-> << Box(0, 1, 1000, 1000, 1000), Box(1, 1, 1000, 1000, 1000) >>,
       constraints |-> Constraints(Free, Free, Free)],
      \* a 2 x 1 x 1 bar and a cube on a 1 x 1 footprint: the bar fits upright only
      [boxes |-> << Box(0, 1, 1000, 1000, 1000), Box(1, 2, 2000, 1000, 1000) >>,
       constraints |-> Constraints(Fixed(1000), Free, Fixed(1000))],
      \* two cubes, width fixed to 1.1
      [boxes |-> << Box(0, 1, 1000, 1000, 1000), Box(1, 1, 1000, 1000, 1000) >>,
       constraints |-> Constraints(Fixed(1100), Free, Free)],
      \* a 1 x 2 x 1 column and a 2 x 1 x 1 bar, all axes fixed: the one
      \* placed first shuts the other out
      [boxes |-> << Box(0, 1, 1000, 2000, 1000), Box(1, 2, 2000, 1000, 1000) >>,
       constraints |-> Constraints(Fixed(2000), Fixed(2000), Fixed(1000))],
      \* a 1 x 2 x 1 column, a 3 x 1 x 1 bar too long for the width and a
      \* 2 x 1 x 1 bar, height free: the long bar never fits unrotated, the
      \* column stands on the short bar but not the bar on the column
      [boxes |-> << Box(0, 1, 1000, 2000, 1000), Box(1, 2, 3000, 1000, 1000),
                    Box(2, 3, 2000, 1000, 1000) >>,
       constraints |-> Constraints(Fixed(2000), Free, Fixed(1000))],
      \* a 1 x 2 x 1 column on a 1 x 2 footprint, height free: rotated, it
      \* lies along the depth under a height of 1
      [boxes |-> << Box(0, 1, 1000, 2000, 1000) >>,
       constraints |-> Constraints(Fixed(1000), Free, Fixed(2000))],
      \* no boxes, width and depth free
      [boxes |-> << >>,
       constraints |-> Constraints(Free, Fixed(1000), Free)] }

\* The configuration optimize falls back on when the start message carries
\* no monteCarloConfig (lines 17-21).
NoConfig == [absent |-> TRUE]
DefaultMcConfig == [searchAttempts |-> 15, finalAttempts |-> 10, useNoise |-> TRUE]

\* Scenario B: eight identical unit cubes (the list holds the same box eight
\* times; the worker never reads a box's ids), every axis free, rotation
\* disabled, no monteCarloConfig.
EightCubes == [k \in 1..8 |-> Box(0, 1, 1000, 1000, 1000)]

ScenarioBParams ==
    [kind |-> "ok", boxes |-> EightCubes,
     constraints |-> Constraints(Free, Free, Free),
     allowRotation |-> FALSE, monteCarloConfig |-> NoConfig]

McConfigs ==
    { [searchAttempts |-> s, finalAttempts |-> f, useNoise |-> u] :
        s \in 1..MaxSearchAttempts, f \in 0..MaxFinalAttempts, u \in BOOLEAN }

\* The runs the simpler worker is compared with: the box lists with every
\* axis constrained, rotation disabled, three attempts, no noise.
SubsetParams ==
    { [kind |-> "ok", boxes |-> sc.boxes, constraints |-> sc.constraints,
       allowRotation |-> FALSE,
       monteCarloConfig |-> [searchAttempts |-> 3, finalAttempts |-> 3,
                             useNoise |-> FALSE]] :
        sc \in { t \in Scenarios :
                   \A dim \in {"width", "height", "depth"} :
                       t.constraints[dim] # Free } }

\* The params of a start message: well-formed ones, a message with no
\* params (optimize throws on the destructuring, line 13) and params with
\* no box list (boxes.reduce throws, line 56).
StartParams ==
    { [kind |-> "ok", boxes |-> sc.boxes, constraints |-> sc.constraints,
       allowRotation |-> rot, monteCarloConfig |-> mc] :
        sc \in Scenarios, rot \in BOOLEAN, mc \in McConfigs }
    \cup { ScenarioBParams }
    \cup SubsetParams
    \cup { [kind |-> "noParams"], [kind |-> "noBoxes"] }

\* ----------------------------------------------------------------- state

VARIABLES
    pc,               \* where the worker's handler is
    params,           \* e.data.params of the start message being handled
    currentContainer, \* findMinimumContainer's currentContainer
    dimIndex,         \* findMinimumContainer's dimIndex
    search,           \* binarySearchDimension's low, high, bestFit, mid, attempt
    bestPlaced,       \* the final pass's bestPlaced
    finalIdx,         \* the final pass's loop index i
    placedBoxes,      \* findMinimumContainer's placedBoxes
    expAttempts,      \* the expansion loop's attempts
    outbox,           \* the messages posted by the worker, in order
    others,           \* the number of messages handled whose type is not start
    lastSearch,       \* history: the last binarySearchDimension call and its return
    lastAttempt,      \* history: the seed and box order of the last attemptPacking
    beforeRounding,   \* history: currentContainer just before the final rounding
    sortOutcomes,     \* the orders the noisy sort has left, by list and seed
    calls,            \* history: the attemptPacking calls made directly
    boxDefs,          \* AppState.boxes, the box definitions
    isOptimizing,     \* AppState.isOptimizing
    runs,             \* the handleOptimize calls: where each is, its worker's boxes
    sorting,          \* one boxList.sort of attemptPacking: seed, getScore calls
    finalTrail,       \* history: seed and result of each attempt of the final pass
    dropping,         \* one dropBox call on large doubles: testY, the result
    appState          \* AppState's container, placedBoxes and optimizationStats

vars == << pc, params, currentContainer, dimIndex, search, bestPlaced, finalIdx,
           placedBoxes, expAttempts, outbox, others, lastSearch, lastAttempt,
           beforeRounding, sortOutcomes, calls, boxDefs, isOptimizing, runs,
           sorting, finalTrail, dropping, appState >>

NoSort == [none |-> TRUE]
NoDrop == [none |-> TRUE]

\* The variables of the page (AppState, SettingsPanel, PackingOptimizer).
appVars == << boxDefs, isOptimizing, runs, appState >>

\* optimizationStats before the first result (main.js line 53).
NoStats == [null |-> TRUE]

\* A run's message field before its terminal message has arrived.
NoMessage == [type |-> "none"]

\* container, placedBoxes and optimizationStats as the constructor leaves
\* them (main.js lines 40-53).
NewAppState ==
    [container |-> [width |-> 20000, height |-> 10000, depth |-> 20000],
     placedBoxes |-> <<>>,
     optimizationStats |-> NoStats]

\* AppState's constructor (main.js lines 31-56).
AppInit ==
    /\ boxDefs = << [id |-> 1, width |-> 1000, height |-> 1000, depth |-> 1000,
                     quantity |-> 1] >>
    /\ isOptimizing = FALSE
    /\ runs = <<>>
    /\ appState = NewAppState

NoContainer == [width |-> 0, height |-> 0, depth |-> 0]
NoSearch == [low |-> 0, high |-> 0, bestFit |-> 0, initialRange |-> 0, mid |-> 0,
             attempt |-> 0, maxValue |-> 0, anySuccess |-> FALSE]
NoHistory == [none |-> TRUE]

Init ==
    /\ pc = "idle"
    /\ params = [kind |-> "none"]
    /\ currentContainer = NoContainer
    /\ dimIndex = 0
    /\ search = NoSearch
    /\ bestPlaced = <<>>
    /\ finalIdx = 0
    /\ placedBoxes = <<>>
    /\ expAttempts = 0
    /\ outbox = <<>>
    /\ others = 0
    /\ lastSearch = NoHistory
    /\ lastAttempt = NoHistory
    /\ beforeRounding = NoHistory
    /\ sortOutcomes = {}
    /\ calls = <<>>
    /\ AppInit
    /\ sorting = NoSort
    /\ finalTrail = <<>>
    /\ dropping = NoDrop

unconstrainedDims == unconstrainedDimsOf(params.constraints)
mcConfig ==
    IF params.monteCarloConfig = NoConfig THEN DefaultMcConfig
    ELSE params.monteCarloConfig

\* ----------------------------------------------------------------- actions

\* self.onmessage with e.data.type === 'start': optimize begins (lines 12-93).
ReceiveStart ==
    /\ pc = "idle"
    /\ \E p \in StartParams :
         /\ params' = p
         /\ IF p.kind = "noParams"
            THEN /\ outbox' = onThrow(outbox)
                 /\ pc' = "done"
                 /\ currentContainer' = currentContainer
            ELSE IF p.kind = "noBoxes"
            THEN /\ outbox' = onThrow(Append(outbox, ProgressMsg(0)))
                 /\ pc' = "done"
                 /\ currentContainer' = currentContainer
            ELSE /\ outbox' = Append(outbox, ProgressMsg(0))
                 /\ pc' = "dims"
                 /\ currentContainer' = initialContainer(p.boxes, p.constraints)
    /\ UNCHANGED << dimIndex, search, bestPlaced, finalIdx, placedBoxes,
                    expAttempts, others, lastSearch, lastAttempt, beforeRounding >>
    /\ UNCHANGED << sortOutcomes, calls >>
    /\ UNCHANGED << appVars, dropping, sorting, finalTrail >>

\* self.onmessage with any other type: nothing happens.
ReceiveOther ==
    /\ pc \in {"idle", "done"}
    /\ others < MaxOther
    /\ others' = others + 1
    /\ UNCHANGED << pc, params, currentContainer, dimIndex, search, bestPlaced,
                    finalIdx, placedBoxes, expAttempts, outbox, lastSearch,
                    lastAttempt, beforeRounding >>
    /\ UNCHANGED << sortOutcomes, calls >>
    /\ UNCHANGED << appVars, dropping, sorting, finalTrail >>

\* The head of the for loop over unconstrainedDims and the entry of
\* binarySearchDimension (lines 100-118, 185-189).
BeginDimension ==
    /\ pc = "dims"
    /\ dimIndex < Len(unconstrainedDims)
    /\ LET dim == unconstrainedDims[dimIndex + 1]
           minValue == maxBoxDims(params.boxes)[dim]
           maxValue == Max2(scale(currentContainer[dim], 3), scale(minValue, 5))
       IN  /\ outbox' = Append(outbox, ProgressMsg(
                           dimStartProgressFloor(dimIndex, Len(unconstrainedDims))))
           /\ search' = [low |-> minValue, high |-> maxValue, bestFit |-> maxValue,
                         initialRange |-> minus(maxValue, minValue), mid |-> 0,
                         attempt |-> 0, maxValue |-> maxValue, anySuccess |-> FALSE]
    /\ dimIndex' = dimIndex + 1
    /\ pc' = "search"
    /\ UNCHANGED << params, currentContainer, bestPlaced, finalIdx, placedBoxes,
                    expAttempts, others, lastSearch, lastAttempt, beforeRounding >>
    /\ UNCHANGED << sortOutcomes, calls >>
    /\ UNCHANGED << appVars, dropping, sorting, finalTrail >>

\* The head of one iteration of binarySearchDimension's while loop
\* (lines 191-211): mid, the progress message.
ProbeStart ==
    /\ pc = "search"
    /\ greater(minus(search.high, search.low), searchEpsilon)
    /\ search' = [search EXCEPT !.mid = divide(plus(search.low, search.high), 2),
                                !.attempt = 0]
    /\ outbox' = IF greater(search.initialRange, 0)
                 THEN Append(outbox, ProgressMsg(
                        searchProgress(dimIndex - 1, Len(unconstrainedDims),
                                       minus(search.high, search.low),
                                       search.initialRange)))
                 ELSE outbox
    /\ pc' = "probe"
    /\ UNCHANGED << params, currentContainer, dimIndex, bestPlaced, finalIdx,
                    placedBoxes, expAttempts, others, lastSearch, lastAttempt,
                    beforeRounding >>
    /\ UNCHANGED << sortOutcomes, calls >>
    /\ UNCHANGED << appVars, dropping, sorting, finalTrail >>

\* One attempt of a probe (lines 213-219) and, when it places every box, the
\* success branch (lines 221-223).
ProbeAttempt ==
    /\ pc = "probe"
    /\ search.attempt < mcConfig.searchAttempts
    /\ \E order \in sortOrders(sortOutcomes, params.boxes, search.attempt,
                              mcConfig.useNoise) :
         LET dim == unconstrainedDims[dimIndex]
             placed == attemptPacking(order,
                         testContainer(currentContainer, dim, search.mid),
                         params.allowRotation)
         IN  /\ lastAttempt' = [seed |-> search.attempt, order |-> order]
             /\ sortOutcomes' = rememberOrder(sortOutcomes, params.boxes,
                                   search.attempt, mcConfig.useNoise, order)
             /\ IF Len(placed) = Len(params.boxes)
                THEN /\ search' = afterProbe(search, TRUE)
                     /\ pc' = "search"
                ELSE /\ search' = [search EXCEPT !.attempt = search.attempt + 1]
                     /\ pc' = "probe"
    /\ UNCHANGED << params, currentContainer, dimIndex, bestPlaced, finalIdx,
                    placedBoxes, expAttempts, outbox, others, lastSearch,
                    beforeRounding >>
    /\ UNCHANGED calls
    /\ UNCHANGED << appVars, dropping, sorting, finalTrail >>

\* The failure branch of a probe: no attempt placed every box (lines 224-226).
ProbeFail ==
    /\ pc = "probe"
    /\ search.attempt >= mcConfig.searchAttempts
    /\ search' = afterProbe(search, FALSE)
    /\ pc' = "search"
    /\ UNCHANGED << params, currentContainer, dimIndex, bestPlaced, finalIdx,
                    placedBoxes, expAttempts, outbox, others, lastSearch,
                    lastAttempt, beforeRounding >>
    /\ UNCHANGED << sortOutcomes, calls >>
    /\ UNCHANGED << appVars, dropping, sorting, finalTrail >>

\* binarySearchDimension returns bestFit, which becomes the axis's size
\* (lines 110, 229).
EndDimension ==
    /\ pc = "search"
    /\ ~greater(minus(search.high, search.low), searchEpsilon)
    /\ LET dim == unconstrainedDims[dimIndex]
       IN  /\ currentContainer' = [currentContainer EXCEPT ![dim] = search.bestFit]
           /\ lastSearch' = [dim |-> dim, baseContainer |-> currentContainer,
                             maxValue |-> search.maxValue,
                             returned |-> search.bestFit,
                             anySuccess |-> search.anySuccess]
    /\ search' = NoSearch
    /\ pc' = "dims"
    /\ UNCHANGED << params, dimIndex, bestPlaced, finalIdx, placedBoxes,
                    expAttempts, outbox, others, lastAttempt, beforeRounding >>
    /\ UNCHANGED << sortOutcomes, calls >>
    /\ UNCHANGED << appVars, dropping, sorting, finalTrail >>

\* After the last dimension: the progress message 50 and the entry of the
\* final pass (lines 121-127).
BeginFinal ==
    /\ pc = "dims"
    /\ dimIndex = Len(unconstrainedDims)
    /\ outbox' = Append(outbox, ProgressMsg(50))
    /\ bestPlaced' = <<>>
    /\ finalIdx' = 0
    /\ finalTrail' = <<>>
    /\ pc' = "final"
    /\ UNCHANGED << params, currentContainer, dimIndex, search, placedBoxes,
                    expAttempts, others, lastSearch, lastAttempt, beforeRounding >>
    /\ UNCHANGED << sortOutcomes, calls >>
    /\ UNCHANGED << appVars, dropping, sorting >>

keepLatest(p, best) == IF Len(p) >= Len(best) THEN p ELSE best

\* if(p.length > bestPlaced.length) bestPlaced = p (line 137).
keepBest(p, best) == IF Len(p) > Len(best) THEN p ELSE best

\* One iteration of the final pass (lines 129-139).
FinalAttempt ==
    /\ pc = "final"
    /\ finalIdx < mcConfig.finalAttempts
    /\ outbox' = Append(outbox, ProgressMsg(
                    finalProgress(finalIdx, mcConfig.finalAttempts)))
    /\ \E order \in sortOrders(sortOutcomes, params.boxes, finalIdx,
                              mcConfig.useNoise) :
         LET p == attemptPacking(order, currentContainer, params.allowRotation)
             best == keepBest(p, bestPlaced)
         IN  /\ lastAttempt' = [seed |-> finalIdx, order |-> order]
             /\ finalTrail' = Append(finalTrail, [seed |-> finalIdx, p |-> p])
             /\ sortOutcomes' = rememberOrder(sortOutcomes, params.boxes,
                                   finalIdx, mcConfig.useNoise, order)
             /\ bestPlaced' = best
             /\ IF Len(best) = Len(params.boxes)
                THEN /\ placedBoxes' = best
                     /\ finalIdx' = finalIdx
                     /\ pc' = "expand"
                ELSE /\ placedBoxes' = placedBoxes
                     /\ finalIdx' = finalIdx + 1
                     /\ pc' = "final"
    /\ UNCHANGED << params, currentContainer, dimIndex, search, expAttempts,
                    others, lastSearch, beforeRounding >>
    /\ UNCHANGED calls
    /\ UNCHANGED << appVars, dropping, sorting >>

\* The final pass ends without a full placement (line 140).
EndFinal ==
    /\ pc = "final"
    /\ finalIdx >= mcConfig.finalAttempts
    /\ placedBoxes' = bestPlaced
    /\ pc' = "expand"
    /\ UNCHANGED << params, currentContainer, dimIndex, search, bestPlaced,
                    finalIdx, expAttempts, outbox, others, lastSearch,
                    lastAttempt, beforeRounding >>
    /\ UNCHANGED << sortOutcomes, calls >>
    /\ UNCHANGED << appVars, dropping, sorting, finalTrail >>

\* The condition of the expansion loop (lines 143, 147).
expansionContinues ==
    /\ Len(placedBoxes) < Len(params.boxes)
    /\ Len(unconstrainedDims) > 0
    /\ expAttempts < MAX_EXPANSION_ATTEMPTS

\* One iteration of the expansion loop (lines 147-168).
ExpandStep ==
    /\ pc = "expand"
    /\ expansionContinues
    /\ expAttempts' = expAttempts + 1
    /\ outbox' = Append(outbox, ProgressMsg(expansionProgress(expAttempts + 1)))
    /\ currentContainer' = expandContainer(currentContainer, params.constraints)
    /\ \E order \in sortOrders(sortOutcomes, params.boxes, 0, mcConfig.useNoise) :
         /\ lastAttempt' = [seed |-> 0, order |-> order]
         /\ sortOutcomes' = rememberOrder(sortOutcomes, params.boxes, 0,
                               mcConfig.useNoise, order)
         /\ placedBoxes' = attemptPacking(order, currentContainer',
                                          params.allowRotation)
    /\ UNCHANGED << pc, params, dimIndex, search, bestPlaced, finalIdx, others,
                    lastSearch, beforeRounding >>
    /\ UNCHANGED calls
    /\ UNCHANGED << appVars, dropping, sorting, finalTrail >>

\* The final rounding, the progress message 100, the return through
\* optimize and the complete message (lines 171-181, 28-45, 476).
Finish ==
    /\ pc = "expand"
    /\ ~expansionContinues
    /\ beforeRounding' = currentContainer
    /\ currentContainer' = roundContainer(currentContainer)
    /\ outbox' = onReturn(Append(outbox, ProgressMsg(100)),
                          optimizeReturn([container |-> currentContainer',
                                          placedBoxes |-> placedBoxes]))
    /\ pc' = "done"
    /\ UNCHANGED << params, dimIndex, search, bestPlaced, finalIdx, placedBoxes,
                    expAttempts, others, lastSearch, lastAttempt >>
    /\ UNCHANGED << sortOutcomes, calls >>
    /\ UNCHANGED << appVars, dropping, sorting, finalTrail >>

Next ==
    \/ ReceiveStart
    \/ ReceiveOther
    \/ BeginDimension
    \/ ProbeStart
    \/ ProbeAttempt
    \/ ProbeFail
    \/ EndDimension
    \/ BeginFinal
    \/ FinalAttempt
    \/ EndFinal
    \/ ExpandStep
    \/ Finish

Spec == Init /\ [][Next]_vars

\* The steps of the handler between its start and its terminal message.
HandlerStep ==
    \/ BeginDimension
    \/ ProbeStart
    \/ ProbeAttempt
    \/ ProbeFail
    \/ EndDimension
    \/ BeginFinal
    \/ FinalAttempt
    \/ EndFinal
    \/ ExpandStep
    \/ Finish

HandlerRunning == pc \notin {"idle", "done"}

\* The handler is synchronous code: once it has started it runs to its end.
\* This is weak fairness of HandlerStep, WF_vars(HandlerStep), with
\* ENABLED <<HandlerStep>>_vars written as the state predicate it equals:
\* in every state of a running handler some step of it is possible.
HandlerFairness == ([]<>(~HandlerRunning)) \/ ([]<><<HandlerStep>>_vars)

LiveSpec == Spec /\ HandlerFairness

\* ---------------------------------------------------------- direct calls

\* attemptPacking called directly on one worker instance, for one box list
\* and one container, with optimize calls in between.  Of the instance's fields optimize writes only
\* allowRotation and mcConfig (lines 14-21); the attemptPacking calls
\* optimize itself makes are calls like any other.
MaxCalls == 3

\* Seed 0 (the plain volume sort) and a seed with noise.
CallSeeds == {0, 1}

ThreeCubes ==
    << Box(0, 1, 1000, 1000, 1000), Box(1, 1, 1000, 1000, 1000),
       Box(2, 1, 1000, 1000, 1000) >>

CubeAndBar == << Box(0, 1, 1000, 1000, 1000), Box(1, 2, 2000, 1000, 1000) >>

SlabAndColumn == << Box(0, 1, 1000, 2000, 2000), Box(1, 2, 1000, 3000, 1000) >>

ColumnAndBlock == << Box(0, 1, 1000, 3000, 1000), Box(1, 2, 1000, 2000, 1000) >>

\* The box lists and containers attemptPacking is called with.
CallCases ==
    { \* three cubes: every noisy order is possible
      [boxes |-> ThreeCubes,
       container |-> [width |-> 1000, height |-> 3000, depth |-> 1000]],
      [boxes |-> ThreeCubes,
       container |-> [width |-> 2000, height |-> 2000, depth |-> 1000]],
      \* a cube and a 2 x 1 x 1 bar: the bar fits upright only
      [boxes |-> CubeAndBar,
       container |-> [width |-> 1000, height |-> 3000, depth |-> 1000]],
      [boxes |-> CubeAndBar,
       container |-> [width |-> 2000, height |-> 2000, depth |-> 1000]],
      \* a 1 x 3 x 1 column and a 1 x 2 x 1 block side by side
      [boxes |-> ColumnAndBlock,
       container |-> [width |-> 2000, height |-> 3000, depth |-> 1000]],
      \* a 1 x 2 x 2 slab and a 1 x 3 x 1 column in a 3 x 3 x 2 container
      [boxes |-> SlabAndColumn,
       container |-> [width |-> 3000, height |-> 3000, depth |-> 2000]] }

CallConfig(boxes, rot, noise) ==
    [kind |-> "ok", boxes |-> boxes, constraints |-> Constraints(Free, Free, Free),
     allowRotation |-> rot,
     monteCarloConfig |-> [searchAttempts |-> 1, finalAttempts |-> 0,
                           useNoise |-> noise]]

CallInit ==
    /\ pc = "calls"
    /\ \E c \in CallCases, rot \in BOOLEAN, noise \in BOOLEAN :
         /\ params = CallConfig(c.boxes, rot, noise)
         /\ currentContainer = c.container
    /\ dimIndex = 0
    /\ search = NoSearch
    /\ bestPlaced = <<>>
    /\ finalIdx = 0
    /\ placedBoxes = <<>>
    /\ expAttempts = 0
    /\ outbox = <<>>
    /\ others = 0
    /\ lastSearch = NoHistory
    /\ lastAttempt = NoHistory
    /\ beforeRounding = NoHistory
    /\ sortOutcomes = {}
    /\ calls = <<>>
    /\ AppInit
    /\ sorting = NoSort
    /\ finalTrail = <<>>
    /\ dropping = NoDrop

\* optimize's assignments to the instance (lines 14-21).
CallOptimize ==
    /\ pc = "calls"
    /\ \E rot \in BOOLEAN, noise \in BOOLEAN :
         /\ params' = CallConfig(params.boxes, rot, noise)
         /\ params' # params
    /\ UNCHANGED << pc, currentContainer, dimIndex, search, bestPlaced, finalIdx,
                    placedBoxes, expAttempts, outbox, others, lastSearch,
                    lastAttempt, beforeRounding, sortOutcomes, calls >>
    /\ UNCHANGED << appVars, dropping, sorting, finalTrail >>

\* One call of attemptPacking(boxes, container, seed) (lines 232-268).
CallAttemptPacking ==
    /\ pc = "calls"
    /\ Len(calls) < MaxCalls
    /\ \E seed \in CallSeeds :
         \E order \in sortOrders(sortOutcomes, params.boxes, seed,
                                 mcConfig.useNoise) :
           /\ calls' = Append(calls,
                  [boxes |-> params.boxes, container |-> currentContainer,
                   seed |-> seed, allowRotation |-> params.allowRotation,
                   mcConfig |-> mcConfig,
                   placed |-> attemptPacking(order, currentContainer,
                                             params.allowRotation)])
           /\ sortOutcomes' = rememberOrder(sortOutcomes, params.boxes, seed,
                                            mcConfig.useNoise, order)
           /\ lastAttempt' = [seed |-> seed, order |-> order]
    /\ UNCHANGED << pc, params, currentContainer, dimIndex, search, bestPlaced,
                    finalIdx, placedBoxes, expAttempts, outbox, others,
                    lastSearch, beforeRounding >>
    /\ UNCHANGED << appVars, dropping, sorting, finalTrail >>

CallNext ==
    \/ CallOptimize
    \/ CallAttemptPacking

CallSpec == CallInit /\ [][CallNext]_vars

\* ------------------------------------------------------- the two workers

\* The worker of PackingOptimizer.js run on the params of a finished run of
\* optimizer.worker.js: findMinimumContainer (lines 137-245) for a box list
\* with no unconstrained axis, where it makes no search and no expansion:
\* the container is the constraints, one attemptPacking with seed 0, the
\* final rounding.
RunSimple ==
    /\ pc = "done"
    /\ params.kind = "ok"
    /\ unconstrainedDims = <<>>
    /\ calls = <<>>
    /\ LET container == initialContainer(params.boxes, params.constraints)
       IN  calls' = << [container |-> roundContainer(container),
                        placedBoxes |-> simpleAttemptPacking(params.boxes,
                                                             container, 0)] >>
    /\ UNCHANGED << pc, params, currentContainer, dimIndex, search, bestPlaced,
                    finalIdx, placedBoxes, expAttempts, outbox, others,
                    lastSearch, lastAttempt, beforeRounding, sortOutcomes,
                    appVars, sorting, finalTrail, dropping >>

VariantNext == Next \/ RunSimple

VariantSpec == Init /\ [][VariantNext]_vars

\* ---------------------------------------------------------------- the sort

workerVars == << pc, params, currentContainer, dimIndex, search, bestPlaced,
                finalIdx, placedBoxes, expAttempts, outbox, others, lastSearch,
                lastAttempt, beforeRounding, sortOutcomes, calls, finalTrail,
                dropping >>

\* boxList.sort((a, b) => getScore(b) - getScore(a)) call by call (lines
\* 236-256).  Which pairs the sort compares, and in which order, is the
\* engine's choice; what a comparison does is the code's.
MaxComparisons == 3

\* random() for the seeds 1..14: the fraction of Math.sin(seed + 1) * 10000,
\* in thousandths (lines 236-240).
randomAt(seed) ==
    << 974, 200, 975, 757, 845, 865, 582, 184, 788, 97, 270, 670, 73, 878 >>[seed]

\* getScore(box) with the local seed at s (lines 244-252): the score, in
\* thousandths of an eighth of a cubic unit, and the seed it leaves.
getScore(box, s, useNoise) ==
    IF useNoise /\ s > 0
    THEN [score |-> volume(box) * (1000 + (randomAt(s) * 400) \div 1000 - 200),
          seed |-> s + 1]
    ELSE [score |-> volume(box) * 1000, seed |-> s]

SortInit ==
    /\ pc = "sort"
    /\ params = [kind |-> "none"]
    /\ currentContainer = NoContainer
    /\ dimIndex = 0
    /\ search = NoSearch
    /\ bestPlaced = <<>>
    /\ finalIdx = 0
    /\ placedBoxes = <<>>
    /\ expAttempts = 0
    /\ outbox = <<>>
    /\ others = 0
    /\ lastSearch = NoHistory
    /\ lastAttempt = NoHistory
    /\ beforeRounding = NoHistory
    /\ sortOutcomes = {}
    /\ calls = <<>>
    /\ AppInit
    /\ finalTrail = <<>>
    /\ dropping = NoDrop
    /\ \E b \in {ThreeCubes, CubeAndBar, ColumnAndBlock}, s \in CallSeeds,
          u \in BOOLEAN :
         sorting = [boxes |-> b, useNoise |-> u, seed |-> s, draws |-> <<>>]

\* One call of the comparator on the boxes at i and j: getScore(b), then
\* getScore(a) (line 255).
Compare ==
    /\ pc = "sort"
    /\ Len(sorting.draws) < 2 * MaxComparisons
    /\ \E i \in 1..Len(sorting.boxes), j \in 1..Len(sorting.boxes) :
         /\ i # j
         /\ LET b == getScore(sorting.boxes[j], sorting.seed, sorting.useNoise)
                a == getScore(sorting.boxes[i], b.seed, sorting.useNoise)
            IN  sorting' = [sorting EXCEPT
                              !.seed = a.seed,
                              !.draws = sorting.draws \o
                                  << [box |-> j, score |-> b.score],
                                     [box |-> i, score |-> a.score] >>]
    /\ UNCHANGED << workerVars, appVars >>

SortNext == Compare

SortSpec == SortInit /\ [][SortNext]_vars

\* ------------------------------------------- the search on large doubles

\* binarySearchDimension (lines 184-230) on doubles between 2^48 and 2^49,
\* where neighbouring doubles are 1/16 apart: a value 2^48 + n/16 is the
\* integer n.  Each probe's outcome is the caller's boxes' business and is
\* drawn freely.
MaxOffset == 6
MaxIterations == 5

\* (low + high) / 2: the sum lies between 2^49 and 2^50, where doubles are
\* 1/8 apart, so an odd low + high is rounded to the neighbour with the even
\* mantissa before the exact halving (line 192).
midpointOf(low, high) ==
    LET t == (low + high) \div 2
    IN  IF (low + high) % 2 = 0 THEN t
        ELSE IF t % 2 = 0 THEN t ELSE t + 1

\* mid + epsilon: 0.05 is 0.8 of the spacing, so the sum rounds to the next
\* double (line 225).
plusEpsilon(m) == m + 1

\* high - low > epsilon: the difference is exact, and one spacing is 0.0625
\* (line 191).
rangeAboveEpsilon(low, high) == high - low >= 1

SearchInit ==
    /\ pc = "searching"
    /\ \E minValue \in 0..MaxOffset : \E maxValue \in minValue..MaxOffset :
         search = [low |-> minValue, high |-> maxValue, bestFit |-> maxValue,
                   minValue |-> minValue, maxValue |-> maxValue,
                   iterations |-> 0, succeeded |-> {}]
    /\ params = [kind |-> "none"]
    /\ currentContainer = NoContainer
    /\ dimIndex = 0
    /\ bestPlaced = <<>>
    /\ finalIdx = 0
    /\ placedBoxes = <<>>
    /\ expAttempts = 0
    /\ outbox = <<>>
    /\ others = 0
    /\ lastSearch = NoHistory
    /\ lastAttempt = NoHistory
    /\ beforeRounding = NoHistory
    /\ sortOutcomes = {}
    /\ calls = <<>>
    /\ AppInit
    /\ sorting = NoSort
    /\ finalTrail = <<>>
    /\ dropping = NoDrop

\* One iteration of the while loop (lines 191-227).
SearchIteration ==
    /\ pc = "searching"
    /\ rangeAboveEpsilon(search.low, search.high)
    /\ search.iterations < MaxIterations
    /\ \E success \in BOOLEAN :
         LET mid == midpointOf(search.low, search.high)
         IN  search' =
               IF success
               THEN [search EXCEPT !.bestFit = mid, !.high = mid,
                                   !.iterations = @ + 1,
                                   !.succeeded = @ \cup {mid}]
               ELSE [search EXCEPT !.low = plusEpsilon(mid),
                                   !.iterations = @ + 1]
    /\ UNCHANGED pc
    /\ UNCHANGED << params, currentContainer, dimIndex, bestPlaced, finalIdx,
                    placedBoxes, expAttempts, outbox, others, lastSearch,
                    lastAttempt, beforeRounding, sortOutcomes, calls, appVars,
                    sorting, finalTrail, dropping >>

\* The loop's exit and the return of bestFit (lines 191, 229).
SearchReturn ==
    /\ pc = "searching"
    /\ ~rangeAboveEpsilon(search.low, search.high)
    /\ pc' = "returned"
    /\ UNCHANGED << search, params, currentContainer, dimIndex, bestPlaced,
                    finalIdx, placedBoxes, expAttempts, outbox, others,
                    lastSearch, lastAttempt, beforeRounding, sortOutcomes,
                    calls, appVars, sorting, finalTrail, dropping >>

SearchNext == SearchIteration \/ SearchReturn

SearchSpec == SearchInit /\ [][SearchNext]_vars

\* --------------------------------------------- the drop on large doubles

\* dropBox (lines 561-591) on doubles between 2^52 and 2^53, where
\* neighbouring doubles are 1 apart: a value 2^52 + n is the integer n.
\* Whether a tested position collides is the placed boxes' business: the
\* tested heights at which checkCollision answers true are drawn freely.
MaxHeight == 4
MaxDrops == 3

\* testY - 0.5: halfway between two doubles, rounded to the one with the
\* even mantissa (line 586).
minusHalf(testY) == IF testY % 2 = 0 THEN testY ELSE testY - 1

\* testY + 0.1 and minY + epsilon: less than half a spacing, absorbed
\* (lines 583, 590).
plusSmall(y) == y

DropInit ==
    /\ pc = "dropping"
    /\ \E minY \in 0..MaxHeight, y \in 0..MaxHeight,
          collisions \in SUBSET (1..MaxHeight) :
         dropping = [minY |-> minY, testY |-> y, collisions |-> collisions,
                     iterations |-> 0, returned |-> -1]
    /\ params = [kind |-> "none"]
    /\ currentContainer = NoContainer
    /\ dimIndex = 0
    /\ search = NoSearch
    /\ bestPlaced = <<>>
    /\ finalIdx = 0
    /\ placedBoxes = <<>>
    /\ expAttempts = 0
    /\ outbox = <<>>
    /\ others = 0
    /\ lastSearch = NoHistory
    /\ lastAttempt = NoHistory
    /\ beforeRounding = NoHistory
    /\ sortOutcomes = {}
    /\ calls = <<>>
    /\ AppInit
    /\ sorting = NoSort
    /\ finalTrail = <<>>

dropRest == << params, currentContainer, dimIndex, search, bestPlaced, finalIdx,
              placedBoxes, expAttempts, outbox, others, lastSearch, lastAttempt,
              beforeRounding, sortOutcomes, calls, appVars, sorting, finalTrail >>

\* One iteration of the while loop (lines 570-587).
DropIteration ==
    /\ pc = "dropping"
    /\ dropping.testY > dropping.minY
    /\ dropping.iterations < MaxDrops
    /\ IF dropping.testY \in dropping.collisions
       THEN /\ dropping' = [dropping EXCEPT
                              !.returned = plusSmall(dropping.testY),
                              !.iterations = @ + 1]
            /\ pc' = "dropped"
       ELSE /\ dropping' = [dropping EXCEPT
                              !.testY = minusHalf(dropping.testY),
                              !.iterations = @ + 1]
            /\ pc' = pc
    /\ UNCHANGED dropRest

\* The loop's exit on the floor (lines 570, 590).
DropFloor ==
    /\ pc = "dropping"
    /\ ~(dropping.testY > dropping.minY)
    /\ dropping' = [dropping EXCEPT !.returned = plusSmall(dropping.minY)]
    /\ pc' = "dropped"
    /\ UNCHANGED dropRest

DropNext == DropIteration \/ DropFloor

DropSpec == DropInit /\ [][DropNext]_vars

\* ---------------------------------------------------- the stability test

\* calculateStability and isValidPlacement (lines 598-667) called on a
\* 1.25 x 1 x 1 box at positions on and around a 2 x 1 x 2 base.
Placed3(id, w, h, d, x, y, z) ==
    [instanceId |-> id, definitionId |-> id, width |-> w, height |-> h,
     depth |-> d, x |-> x, y |-> y, z |-> z]

BaseBox == Placed3(0, 2000, 1000, 2000, 0, 500, 0)
SideBox == Placed3(1, 1000, 1000, 1000, 1500, 500, 0)

StabilityPlaced == { <<>>, << BaseBox >>, << BaseBox, SideBox >> }

StabilityContainers ==
    { [width |-> 6000, height |-> 6000, depth |-> 6000],
      [width |-> 3000, height |-> 3000, depth |-> 3000] }

\* The positions of the tested box: from centred on the base to clear of
\* it, on the floor, resting after a drop (0.001 and 0.1 above a surface),
\* on the base's top face and up to 0.5 above it.
StabilityXs == { 0, 375, 1000, 1125, 1250, 1375, 1500, 1625, 1750 }
StabilityYs == { 500, 501, 625, 1500, 1600, 1875, 2000 }

StabilityInit ==
    /\ pc = "stability"
    /\ placedBoxes \in StabilityPlaced
    /\ currentContainer \in StabilityContainers
    /\ params = [kind |-> "none"]
    /\ dimIndex = 0
    /\ search = NoSearch
    /\ bestPlaced = <<>>
    /\ finalIdx = 0
    /\ expAttempts = 0
    /\ outbox = <<>>
    /\ others = 0
    /\ lastSearch = NoHistory
    /\ lastAttempt = NoHistory
    /\ beforeRounding = NoHistory
    /\ sortOutcomes = {}
    /\ calls = <<>>
    /\ AppInit
    /\ sorting = NoSort
    /\ finalTrail = <<>>
    /\ dropping = NoDrop

\* One call of calculateStability and of isValidPlacement with the
\* minStability findPlacement passes (line 322).
StabilityCall ==
    /\ pc = "stability"
    /\ \E x \in StabilityXs, y \in StabilityYs :
         LET box == Placed3(2, 1250, 1000, 1000, x, y, 0)
         IN  calls' = << [box |-> box,
                          stability |-> calculateStability(box, placedBoxes,
                                                           currentContainer),
                          valid |-> isValidPlacement(box, placedBoxes,
                                        currentContainer, minStability)] >>
    /\ UNCHANGED << pc, params, currentContainer, dimIndex, search, bestPlaced,
                    finalIdx, placedBoxes, expAttempts, outbox, others,
                    lastSearch, lastAttempt, beforeRounding, sortOutcomes,
                    appVars, sorting, finalTrail, dropping >>

StabilityNext == StabilityCall

StabilitySpec == StabilityInit /\ [][StabilityNext]_vars

\* --------------------------------------------------------------- the page

\* The page around the worker: AppState (main.js), the Optimize button
\* (SettingsPanel.js) and PackingOptimizer.optimize (PackingOptimizer.js).
\* A worker is what the rest of this module models; here it is started and
\* later posts its one terminal message.
MaxDefs == 2
MaxQuantity == 2
MaxClicks == 2

\* Box definitions: the width is edited, height 3 and depth 4 tell the
\* three dimensions apart; ids are handed out in order (addBox, nextBoxId).
BoxDefLists ==
    UNION { { [j \in 1..n |-> [id |-> j, width |-> f[j].width, height |-> 3000,
                               depth |-> 4000, quantity |-> f[j].quantity]] :
                f \in [1..n -> [width : {1000, 2000}, quantity : 1..MaxQuantity]] } :
            n \in 0..MaxDefs }

\* The instances of one definition (lines 134-142 of main.js).
RECURSIVE instancesOf(_, _, _)
instancesOf(boxDef, i, instanceId) ==
    IF i >= boxDef.quantity THEN <<>>
    ELSE << [instanceId |-> instanceId, definitionId |-> boxDef.id,
             width |-> boxDef.width, height |-> boxDef.height,
             depth |-> boxDef.depth] >>
         \o instancesOf(boxDef, i + 1, instanceId + 1)

RECURSIVE expandFrom(_, _, _)
expandFrom(boxes, j, instanceId) ==
    IF j > Len(boxes) THEN <<>>
    ELSE LET these == instancesOf(boxes[j], 0, instanceId)
         IN  these \o expandFrom(boxes, j + 1, instanceId + Len(these))

\* An expansion whose instanceId starts again at 0 for every definition.
getExpandedBoxesPerDefinition(boxes) ==
    LET RECURSIVE from(_)
        from(j) == IF j > Len(boxes) THEN <<>>
                   ELSE instancesOf(boxes[j], 0, 0) \o from(j + 1)
    IN  from(1)

\* AppState.getExpandedBoxes (main.js lines 128-145).
getExpandedBoxes(boxes) == expandFrom(boxes, 1, 0)

PageInit ==
    /\ pc = "page"
    /\ params = [kind |-> "none"]
    /\ currentContainer = NoContainer
    /\ dimIndex = 0
    /\ search = NoSearch
    /\ bestPlaced = <<>>
    /\ finalIdx = 0
    /\ placedBoxes = <<>>
    /\ expAttempts = 0
    /\ outbox = <<>>
    /\ others = 0
    /\ lastSearch = NoHistory
    /\ lastAttempt = NoHistory
    /\ beforeRounding = NoHistory
    /\ sortOutcomes = {}
    /\ calls = <<>>
    /\ boxDefs \in BoxDefLists
    /\ isOptimizing = FALSE
    /\ runs = <<>>
    /\ appState = NewAppState
    /\ sorting = NoSort
    /\ finalTrail = <<>>
    /\ dropping = NoDrop

\* A click on the Optimize button, which is disabled while isOptimizing
\* (SettingsPanel.js lines 70, 193, 446-448): handleOptimize starts and
\* awaits its dynamic import (line 469).
Click ==
    /\ pc = "page"
    /\ ~isOptimizing
    /\ Len(runs) < MaxClicks
    /\ runs' = Append(runs, [at |-> "import", boxes |-> <<>>,
                              terminated |-> FALSE, message |-> NoMessage])
    /\ UNCHANGED << workerVars, sorting, boxDefs, isOptimizing, appState >>

\* The import resolves: startOptimization, then the 50 ms timer is set
\* (SettingsPanel.js lines 470-477, main.js lines 122-125).
ImportResolved ==
    /\ pc = "page"
    /\ \E i \in 1..Len(runs) :
         /\ runs[i].at = "import"
         /\ runs' = [runs EXCEPT ![i].at = "timer"]
    /\ isOptimizing' = TRUE
    /\ UNCHANGED << workerVars, sorting, boxDefs, appState >>

\* The timer fires: PackingOptimizer.optimize expands the boxes, creates a
\* worker and posts the start message (PackingOptimizer.js lines 6-8, 32,
\* 91-98).
TimerFires ==
    /\ pc = "page"
    /\ \E i \in 1..Len(runs) :
         /\ runs[i].at = "timer"
         /\ runs' = [runs EXCEPT ![i].at = "worker",
                                 ![i].boxes = getExpandedBoxes(boxDefs)]
    /\ UNCHANGED << workerVars, sorting, boxDefs, isOptimizing, appState >>

\* The terminal messages worker.onmessage tells apart for a run on boxes:
\* an error message with err.message, a complete message whose result has
\* success false, and a complete message with a container and the boxes
\* placed, none or all of them here (optimizer.worker.js lines 30-45,
\* 475-478).
TerminalMessages(boxes) ==
    { [type |-> "error", error |-> "boxes is not iterable"],
      CompleteMsg(optimizeReturn(NullResult)) }
    \cup { CompleteMsg(optimizeReturn(
               [container |-> [width |-> 2000, height |-> 3000, depth |-> 4000],
                placedBoxes |-> SubSeq(boxes, 1, k)])) : k \in {0, Len(boxes)} }

\* The branch of worker.onmessage for an error message or a result without
\* success (PackingOptimizer.js line 55).
Failed(msg) == msg.type = "error" \/ ~msg.result.success

\* A handler that records a failed run in the stats and leaves the boxes
\* of the run before in place.
keepPlacedOnFailure(state, msg, totalBoxes) ==
    IF Failed(msg)
    THEN [state EXCEPT
            !.optimizationStats =
                [placedCount |-> 0, totalBoxes |-> totalBoxes,
                 error |-> IF msg.type = "error" THEN msg.error
                           ELSE msg.result.error]]
    ELSE [container |-> msg.result.container,
          placedBoxes |-> msg.result.placedBoxes,
          optimizationStats |-> [placedCount |-> Len(msg.result.placedBoxes),
                                 totalBoxes |-> totalBoxes]]

\* What worker.onmessage makes of AppState's container, placedBoxes and
\* optimizationStats for a terminal message: setPlacedBoxes([], stats with
\* the error) for a failure, updateContainer and setPlacedBoxes for a result
\* (PackingOptimizer.js lines 55-86, main.js lines 75-78, 114-119);
\* volumeUtilization, timeMs and containerSize are left out.
applyTerminal(state, msg, totalBoxes) ==
    IF Failed(msg)
    THEN [state EXCEPT
            !.placedBoxes = <<>>,
            !.optimizationStats =
                [placedCount |-> 0, totalBoxes |-> totalBoxes,
                 error |-> IF msg.type = "error" THEN msg.error
                           ELSE msg.result.error]]
    ELSE [container |-> msg.result.container,
          placedBoxes |-> msg.result.placedBoxes,
          optimizationStats |-> [placedCount |-> Len(msg.result.placedBoxes),
                                 totalBoxes |-> totalBoxes]]

\* worker.onmessage for the worker's terminal message, complete or error:
\* worker.terminate and, on every path, setPlacedBoxes
\* (PackingOptimizer.js lines 43-87, main.js lines 114-119).
TerminalHandled ==
    /\ pc = "page"
    /\ \E i \in 1..Len(runs) :
         /\ runs[i].at = "worker"
         /\ \E msg \in TerminalMessages(runs[i].boxes) :
              /\ runs' = [runs EXCEPT ![i].at = "closed",
                                      ![i].terminated = TRUE,
                                      ![i].message = msg]
              /\ appState' = applyTerminal(appState, msg, Len(runs[i].boxes))
    /\ isOptimizing' = FALSE
    /\ UNCHANGED << workerVars, sorting, boxDefs >>

PageNext ==
    \/ Click
    \/ ImportResolved
    \/ TimerFires
    \/ TerminalHandled

PageSpec == PageInit /\ [][PageNext]_vars

\* ------------------------------------------------------------ properties

\* The run has posted its complete message; Result is the result it carries.
Completed == pc = "done" /\ outbox[Len(outbox)].type = "complete"
Result == outbox[Len(outbox)].result
Placed == Result.placedBoxes

\* Twice the coordinates of a box's faces: exact, whatever the parity of the
\* box's dimensions.
MinX2(b) == 2 * b.x - b.width
MaxX2(b) == 2 * b.x + b.width
MinY2(b) == 2 * b.y - b.height
MaxY2(b) == 2 * b.y + b.height
MinZ2(b) == 2 * b.z - b.depth
MaxZ2(b) == 2 * b.z + b.depth

FootprintsOverlap(a, b) ==
    /\ MaxX2(a) > MinX2(b) /\ MinX2(a) < MaxX2(b)
    /\ MaxZ2(a) > MinZ2(b) /\ MinZ2(a) < MaxZ2(b)

Overlaps(a, b) ==
    /\ FootprintsOverlap(a, b)
    /\ MaxY2(a) > MinY2(b) /\ MinY2(a) < MaxY2(b)

\* C1: in every returned result no two distinct placed boxes overlap: their
\* axis-aligned boxes do not strictly intersect on all three axes.
C1_NoOverlap ==
    Completed =>
        \A i, j \in 1..Len(Placed) : i # j => ~Overlaps(Placed[i], Placed[j])

\* A result with two boxes one above the other: only the y axis separates them.
C1_Witness ==
    /\ Completed
    /\ \E i, j \in 1..Len(Placed) :
          i # j /\ FootprintsOverlap(Placed[i], Placed[j])

Inside(b, c) ==
    /\ MinX2(b) >= -c.width /\ MaxX2(b) <= c.width
    /\ MinY2(b) >= 0 /\ MaxY2(b) <= 2 * c.height
    /\ MinZ2(b) >= -c.depth /\ MaxZ2(b) <= c.depth

\* C2: in every returned result every placed box lies inside the returned,
\* rounded container: x faces within [-W/2, W/2], y faces within [0, H],
\* z faces within [-D/2, D/2], inclusive.
C2_Containment ==
    Completed => \A i \in 1..Len(Placed) : Inside(Placed[i], Result.container)

\* A result whose container the rounding changed after the final pass placed
\* its boxes.
C2_Witness ==
    /\ Completed
    /\ Len(Placed) > 0
    /\ expAttempts = 0
    /\ Result.container # beforeRounding

\* A result whose boxes were placed by an expansion iteration.
C2_WitnessExpansion ==
    /\ Completed
    /\ Len(Placed) > 0
    /\ expAttempts > 0

\* The placed boxes of a result other than the i-th.
OthersOf(p, i) == [k \in 1..(Len(p) - 1) |-> IF k < i THEN p[k] ELSE p[k + 1]]

Elevated(b) == MinY2(b) > 2 * 100

\* Four times the area of b's footprint that q supports: q's top face is
\* within 0.5 of b's bottom face and the footprints overlap.
SupportArea4(b, q) ==
    IF /\ Abs(MaxY2(q) - MinY2(b)) < 2 * 500
       /\ FootprintsOverlap(b, q)
    THEN (Min2(MaxX2(b), MaxX2(q)) - Max2(MinX2(b), MinX2(q)))
            * (Min2(MaxZ2(b), MaxZ2(q)) - Max2(MinZ2(b), MinZ2(q)))
    ELSE 0

RECURSIVE SupportSum4(_, _, _)
SupportSum4(b, p, i) ==
    IF i > Len(p) THEN 0 ELSE SupportArea4(b, p[i]) + SupportSum4(b, p, i + 1)

\* The support ratio of b against the boxes p is at least 0.2: the ratio is
\* the supported share of the footprint, at most 1, halved when below 0.5,
\* so it is at least 0.2 exactly when the supported share is at least 0.4.
SupportRatioAtLeastFifth(b, p) ==
    10 * SupportSum4(b, p, 1) >= 4 * (4 * b.width * b.depth)

\* C3: in every returned result every placed box whose bottom face is more
\* than 0.1 above the floor has a support ratio of at least 0.2 against the
\* other placed boxes of the result.
C3_Stability ==
    Completed =>
        \A i \in 1..Len(Placed) :
            Elevated(Placed[i]) =>
                SupportRatioAtLeastFifth(Placed[i], OthersOf(Placed, i))

\* A result with a box above the floor that was placed before another box.
C3_Witness ==
    /\ Completed
    /\ \E i \in 1..Len(Placed) : i < Len(Placed) /\ Elevated(Placed[i])

\* C4: when zero boxes could be placed the call reports failure; a result
\* with success true carries at least one placed box.
C4_ZeroPlacedIsFailure ==
    (Completed /\ Result.success) => Len(Result.placedBoxes) >= 1

Terminal(m) == m.type \in {"complete", "error"}
TerminalCount == Cardinality({ i \in 1..Len(outbox) : Terminal(outbox[i]) })

\* Nothing is posted before a start message; at most one terminal message is
\* posted, nothing follows it, and the handler has ended exactly when it is
\* posted.
OneTerminalLast ==
    /\ pc = "idle" => outbox = << >>
    /\ TerminalCount <= 1
    /\ \A i \in 1..Len(outbox) : Terminal(outbox[i]) => i = Len(outbox)
    /\ pc = "done" <=> TerminalCount = 1

ProgressValues ==
    LET posted == SelectSeq(outbox, LAMBDA m : m.type = "progress")
    IN  [i \in 1..Len(posted) |-> posted[i].progress]

\* C6: the progress values of a run are non-decreasing, each lies in 0..100,
\* the first is 0 and a run that completes posts 100 as its last.
C6_Progress ==
    LET P == ProgressValues
    IN  /\ \A i \in 1..Len(P) : P[i] \in 0..100
        /\ \A i \in 1..(Len(P) - 1) : P[i] <= P[i + 1]
        /\ Len(P) > 0 => P[1] = 0
        /\ Completed => P[Len(P)] = 100

\* C7: on every constrained axis the returned container does not exceed the
\* constraint given by the caller.
C7_ConstraintIsUpperBound ==
    Completed =>
        \A dim \in {"width", "height", "depth"} :
            ~isFree(params.constraints, dim) =>
                Result.container[dim] <= params.constraints[dim].value

\* The full feasibility probe at size v of axis dim: attemptPacking with the
\* seeds 0..searchAttempts-1 can place every box.
ProbeCanSucceed(baseContainer, dim, v) ==
    \E seed \in 0..(mcConfig.searchAttempts - 1) :
        \E order \in boxOrders(params.boxes, seed, mcConfig.useNoise) :
            Len(attemptPacking(order, testContainer(baseContainer, dim, v),
                               params.allowRotation)) = Len(params.boxes)

Searched == lastSearch # NoHistory

\* C8 as stated: binarySearchDimension never returns a value at which the
\* full feasibility probe fails.
C8_ReturnedIsFeasible ==
    Searched =>
        ProbeCanSucceed(lastSearch.baseContainer, lastSearch.dim,
                        lastSearch.returned)

\* C8, amended: binarySearchDimension returns a midpoint at which its probe
\* succeeded, so that the probe can succeed at the returned size, or, when
\* no probed midpoint succeeded, its upper bound maxValue, which it does not
\* probe.
C8_ReturnedIsProbedOrMax ==
    Searched =>
        IF lastSearch.anySuccess
        THEN ProbeCanSucceed(lastSearch.baseContainer, lastSearch.dim,
                             lastSearch.returned)
        ELSE lastSearch.returned = lastSearch.maxValue

\* A search in which no midpoint succeeded: the upper bound is returned, and
\* packing fails at it.
C8_Witness ==
    /\ Searched
    /\ ~lastSearch.anySuccess
    /\ ~ProbeCanSucceed(lastSearch.baseContainer, lastSearch.dim,
                        lastSearch.returned)

\* A search that returned a probed midpoint below its upper bound.
C8_WitnessProbed ==
    /\ Searched
    /\ lastSearch.anySuccess
    /\ lastSearch.returned < lastSearch.maxValue

\* C9: the final rounding maps every axis value v to the smallest multiple
\* of 0.125 that is at least v, rounding the result again changes nothing,
\* and every axis of a returned container is a multiple of 0.125.
C9_Rounding ==
    Completed =>
        \A dim \in {"width", "height", "depth"} :
            LET v == beforeRounding[dim]
                r == Result.container[dim]
            IN  /\ isFinite(r) /\ r % 125 = 0
                /\ r >= v /\ r - v < 125
                /\ roundDim(r) = r

Attempted == lastAttempt # NoHistory

\* The position of a box in the input list.
InputIndex(b) ==
    CHOOSE i \in 1..Len(params.boxes) : params.boxes[i].instanceId = b.instanceId

\* C10: with seed 0, noise on or off, attemptPacking processes the boxes in
\* descending order of volume, boxes of equal volume in their input order.
C10_SeedZeroOrder ==
    (Attempted /\ lastAttempt.seed = 0) =>
        LET order == lastAttempt.order
        IN  /\ Len(order) = Len(params.boxes)
            /\ \A i \in 1..Len(params.boxes) :
                  \E k \in 1..Len(order) : order[k] = params.boxes[i]
            /\ \A k, l \in 1..Len(order) :
                  k < l =>
                    \/ volume(order[k]) > volume(order[l])
                    \/ /\ volume(order[k]) = volume(order[l])
                       /\ InputIndex(order[k]) <= InputIndex(order[l])

\* A seed-0 attempt with noise on whose order differs from the input order.
C10_Witness ==
    /\ Attempted
    /\ lastAttempt.seed = 0
    /\ mcConfig.useNoise
    /\ lastAttempt.order # params.boxes

\* ---- C11

SameCall(a, b) ==
    /\ a.boxes = b.boxes
    /\ a.container = b.container
    /\ a.seed = b.seed
    /\ a.allowRotation = b.allowRotation
    /\ a.mcConfig = b.mcConfig

C12_RotationNeverWorse ==
    \A i \in 1..Len(calls) : \A j \in 1..Len(calls) :
        ( /\ calls[i].boxes = calls[j].boxes
          /\ calls[i].container = calls[j].container
          /\ calls[i].seed = calls[j].seed
          /\ calls[i].mcConfig = calls[j].mcConfig
          /\ calls[i].allowRotation
          /\ ~calls[j].allowRotation )
        => Len(calls[i].placed) >= Len(calls[j].placed)

\* ---- C13

\* Scenario A: one unit cube, height and depth constrained to 1, width free.
ScenarioA ==
    /\ params.kind = "ok"
    /\ params.boxes = << Box(0, 1, 1000, 1000, 1000) >>
    /\ params.constraints = Constraints(Free, Fixed(1000), Fixed(1000))

\* C13: in scenario A optimize returns success, a container at least 1 wide
\* whose width is a multiple of 0.125, and exactly one placed box, at the
\* floor corner of the container it was placed in: x = -W/2 + 1/2 for that
\* container's width W (to the thousandth the model computes in), y = 1/2,
\* z = -D/2 + 1/2.
C13_ScenarioA ==
    (Completed /\ ScenarioA) =>
        /\ Result.success
        /\ Result.container.width >= 1000
        /\ Result.container.width % 125 = 0
        /\ Len(Placed) = 1
        /\ Abs(2 * Placed[1].x - (1000 - beforeRounding.width)) <= 2
        /\ Placed[1].y = 500
        /\ 2 * Placed[1].z = 1000 - beforeRounding.depth

\* Scenario A has completed after a search that narrowed the width.
C13_Witness ==
    /\ Completed
    /\ ScenarioA
    /\ Len(Placed) = 1
    /\ Result.container.width < 2000
    /\ mcConfig.finalAttempts > 0

\* Scenario A has completed with no final attempt: the box was placed by the
\* expansion loop.
C13_WitnessExpansion ==
    /\ Completed
    /\ ScenarioA
    /\ Len(Placed) = 1
    /\ mcConfig.finalAttempts = 0
    /\ expAttempts = 1

\* ---- C14

\* C14: scenario B (eight identical unit cubes, every axis free, rotation
\* disabled, the default attempt budget): optimize returns a result in which
\* all eight boxes are placed.
C14_ScenarioB ==
    (pc = "done" /\ params = ScenarioBParams) =>
        /\ Completed
        /\ Result.success
        /\ Len(Placed) = 8

\* Scenario B has completed; its search tried all fifteen seeds on a probe
\* that failed.
C14_Witness ==
    /\ Completed
    /\ params = ScenarioBParams
    /\ Len(Placed) = 8
    /\ lastSearch # NoHistory
    /\ sortOutcomes # {}
    /\ \E m \in sortOutcomes : m.seed = 14

\* ---- C15

RECURSIVE SumOfQuantities(_, _)
SumOfQuantities(defs, n) ==
    IF n = 0 THEN 0 ELSE SumOfQuantities(defs, n - 1) + defs[n].quantity

\* The boxes a started worker was given.
Started(i) == runs[i].at \in {"worker", "closed"}

\* C15: getExpandedBoxes returns one instance per unit of quantity of every
\* definition: the length is the sum of the quantities, the instanceIds are
\* 0..n-1 in list order, and each instance carries the id and the width,
\* height and depth of the definition it was expanded from (the j-th
\* definition for the positions after the first j-1 definitions' quantities).
C15_Expansion ==
    \A i \in 1..Len(runs) :
        Started(i) =>
            LET b == runs[i].boxes
            IN  /\ Len(b) = SumOfQuantities(boxDefs, Len(boxDefs))
                /\ \A k \in 1..Len(b) :
                      /\ b[k].instanceId = k - 1
                      /\ \E j \in 1..Len(boxDefs) :
                            /\ SumOfQuantities(boxDefs, j - 1) < k
                            /\ k <= SumOfQuantities(boxDefs, j)
                            /\ b[k].definitionId = boxDefs[j].id
                            /\ b[k].width = boxDefs[j].width
                            /\ b[k].height = boxDefs[j].height
                            /\ b[k].depth = boxDefs[j].depth

\* A worker was started with the expansion of two definitions of different
\* widths, two instances each.
C15_Witness ==
    /\ Len(runs) >= 1
    /\ Started(1)
    /\ Len(boxDefs) = 2
    /\ boxDefs[1].quantity = 2
    /\ boxDefs[2].quantity = 2
    /\ boxDefs[1].width # boxDefs[2].width
    /\ Len(runs[1].boxes) = 4

\* ---- C16

\* C16: at most one optimization run is active at a time: a second worker
\* is never started before the terminal message of the previous run has
\* been handled.
C16_OneRunAtATime ==
    Cardinality({ i \in 1..Len(runs) : runs[i].at = "worker" }) <= 1

\* ---- C17

\* The candidates findPlacement builds for a box, in the order it scans them.
ScanOrder(box, placed, container, rot) ==
    sortCandidates(allCandidates(
        IF rot THEN getUniqueOrientations(box)
        ELSE << [width |-> box.width, height |-> box.height,
                 depth |-> box.depth] >>,
        placed, container, 1))

\* The i-th candidate is reached: no candidate before it validated.
Examined(box, cands, placed, container, i) ==
    \A j \in 1..(i - 1) :
        ~isValidPlacement(testBoxOf(box, cands[j], placed, container), placed,
                          container, minStability)

\* The rule holds for every candidate examined while order[i..] is placed.
RECURSIVE HalfHeightRule(_, _, _, _, _)
HalfHeightRule(order, i, placed, container, rot) ==
    IF i > Len(order) THEN TRUE
    ELSE LET cands == ScanOrder(order[i], placed, container, rot)
             placement == findPlacement(order[i], placed, container, rot)
         IN  /\ \A k \in 1..Len(cands) :
                   Examined(order[i], cands, placed, container, k) =>
                       ( gravityApplies(cands[k])
                         <=> ( 2 * cands[k].y > cands[k].height
                               /\ ~cands[k].skipGravity ) )
             /\ HalfHeightRule(order, i + 1,
                                IF placement = NoPlacement THEN placed
                                ELSE Append(placed, placement),
                                container, rot)

\* C17: in findPlacement a candidate's y is replaced by the result of
\* dropBox exactly when its declared y exceeds half the height of its
\* orientation and it is not marked skipGravity.
C17_DropTrigger ==
    Len(calls) = 1 =>
        HalfHeightRule(lastAttempt.order, 1, <<>>, calls[1].container,
                       calls[1].allowRotation)

\* ---- C18

\* a comes strictly before b in the bottom-back-left order: lower y, then
\* lower z, then lower x, differences up to 0.001 being ties.
BottomBackLeftBefore(a, b) ==
    \/ a.y < b.y - 1
    \/ /\ Abs(a.y - b.y) <= 1
       /\ \/ a.z < b.z - 1
          \/ /\ Abs(a.z - b.z) <= 1
             /\ a.x < b.x - 1

OrientationsOf(box, rot) ==
    IF rot THEN getUniqueOrientations(box)
    ELSE << [width |-> box.width, height |-> box.height, depth |-> box.depth] >>

Validates(box, c, placed, container) ==
    isValidPlacement(testBoxOf(box, c, placed, container), placed, container, 200)

\* findPlacement is first-fit over the bottom-back-left order for every box
\* of order[i..].
\* The candidates generateCandidatePositions gives for the orientations
\* os[o..].
RECURSIVE Generated(_, _, _, _)
Generated(os, o, placed, container) ==
    IF o > Len(os) THEN {}
    ELSE LET g == generateCandidatePositions(os[o], placed, container)
         IN  { g[n] : n \in 1..Len(g) } \cup Generated(os, o + 1, placed, container)

\* findPlacement is first-fit over the bottom-back-left order for every box
\* of order[i..].
RECURSIVE FirstFit(_, _, _, _, _)
FirstFit(order, i, placed, container, rot) ==
    IF i > Len(order) THEN TRUE
    ELSE LET box == order[i]
             cands == ScanOrder(box, placed, container, rot)
             placement == findPlacement(box, placed, container, rot)
             valid == { k \in 1..Len(cands) :
                          Validates(box, cands[k], placed, container) }
         IN  \* the candidates of all orientations, merged
             /\ { cands[k] : k \in 1..Len(cands) }
                   = Generated(OrientationsOf(box, rot), 1, placed, container)
             \* in ascending order
             /\ \A k \in 1..Len(cands) : \A l \in (k + 1)..Len(cands) :
                   ~BottomBackLeftBefore(cands[l], cands[k])
             \* the first that validates, null iff none does
             /\ (placement = NoPlacement) <=> (valid = {})
             /\ valid # {} =>
                   \E k \in valid :
                       /\ \A l \in valid : k <= l
                       /\ placement = testBoxOf(box, cands[k], placed, container)
             /\ FirstFit(order, i + 1,
                          IF placement = NoPlacement THEN placed
                          ELSE Append(placed, placement),
                          container, rot)

\* C18: findPlacement merges the candidates of all orientations, orders
\* them by ascending y, then z, then x (differences up to 0.001 are ties),
\* returns the first candidate that isValidPlacement accepts with
\* minStability 0.2, and returns null iff none is accepted; the seed plays
\* no part: with the same box order, attempts with different seeds place
\* the same boxes at the same places.  The first conjunct looks at the
\* first call of a behaviour, which ranges over every box list, container,
\* rotation flag, seed and box order.
C18_FirstFit ==
    /\ Len(calls) = 1 =>
          FirstFit(lastAttempt.order, 1, <<>>, calls[1].container,
                   calls[1].allowRotation)
    /\ \A i \in 1..Len(calls) : \A j \in 1..Len(calls) :
          ( /\ calls[i].boxes = calls[j].boxes
            /\ calls[i].container = calls[j].container
            /\ calls[i].allowRotation = calls[j].allowRotation
            /\ ~calls[i].mcConfig.useNoise
            /\ ~calls[j].mcConfig.useNoise )
          => calls[i].placed = calls[j].placed

\* Three calls: with rotation the bar was placed upright, in its third
\* orientation, after the candidates of the flat orientations failed and
\* the cube went on top; without rotation, with seeds 0 and 1, the bar got
\* no placement.
C18_Witness ==
    /\ Len(calls) = 3
    /\ calls[1].boxes = CubeAndBar
    /\ calls[1].allowRotation
    /\ Len(calls[1].placed) = 2
    /\ calls[1].placed[1].height = 2000
    /\ ~calls[2].allowRotation
    /\ ~calls[2].mcConfig.useNoise
    /\ calls[2].seed = 0
    /\ Len(calls[2].placed) = 1
    /\ ~calls[3].allowRotation
    /\ ~calls[3].mcConfig.useNoise
    /\ calls[3].seed = 1

\* ---- C19

\* C19: in attemptPacking each box has one sort score for the whole attempt:
\* the score of a box does not change between two comparisons of the same
\* sort.
C19_OneScorePerBox ==
    sorting # NoSort =>
        \A m \in 1..Len(sorting.draws) : \A n \in 1..Len(sorting.draws) :
            sorting.draws[m].box = sorting.draws[n].box
                => sorting.draws[m].score = sorting.draws[n].score

\* ---- C20

InFinalPass == pc = "final" /\ params.kind = "ok"

\* The lowest index of finalTrail whose attempt placed the most boxes.
BestOfTrail ==
    CHOOSE k \in 1..Len(finalTrail) :
        /\ \A l \in 1..Len(finalTrail) : Len(finalTrail[l].p) <= Len(finalTrail[k].p)
        /\ \A l \in 1..(k - 1) : Len(finalTrail[l].p) < Len(finalTrail[k].p)

\* C20: the final placement pass runs attemptPacking with the seeds 0, 1, ...
\* in increasing order, at most finalAttempts times; it keeps the attempt with
\* the most placed boxes, the lowest seed among equals; and no attempt follows
\* one that placed all the boxes.
C20_FinalPass ==
    InFinalPass =>
        /\ Len(finalTrail) <= mcConfig.finalAttempts
        /\ \A k \in 1..Len(finalTrail) : finalTrail[k].seed = k - 1
        /\ \A k \in 1..(Len(finalTrail) - 1) :
               Len(finalTrail[k].p) < Len(params.boxes)
        /\ bestPlaced = IF finalTrail = <<>> THEN <<>>
                        ELSE finalTrail[BestOfTrail].p

\* The final pass made two attempts that placed equally many boxes, not all
\* of them, in different places, and kept the first.
C20_Witness ==
    /\ InFinalPass
    /\ Len(finalTrail) = 2
    /\ Len(finalTrail[1].p) = Len(finalTrail[2].p)
    /\ finalTrail[1].p # finalTrail[2].p
    /\ bestPlaced = finalTrail[1].p

\* The final pass stopped after a full placement with attempts to spare, and
\* what it hands to the expansion loop is that placement.
C20_WitnessStop ==
    /\ pc = "expand"
    /\ finalTrail # <<>>
    /\ Len(finalTrail) < mcConfig.finalAttempts
    /\ Len(finalTrail[Len(finalTrail)].p) = Len(params.boxes)
    /\ expAttempts = 0
    /\ placedBoxes = finalTrail[Len(finalTrail)].p

\* ---- C21

\* A step of the handler that is one iteration of the expansion loop.
ExpansionIteration == pc = "expand" /\ expAttempts' > expAttempts

C21_WitnessExhausted ==
    /\ pc = "expand"
    /\ expAttempts = 20
    /\ Len(placedBoxes) < Len(params.boxes)

\* ---- C22

\* C22: binarySearchDimension terminates for every interval with finite
\* minValue <= maxValue, because each iteration of its loop strictly shrinks
\* high - low.
C22_SearchShrinks ==
    [][(pc = "searching" /\ search'.iterations > search.iterations) =>
          search'.high - search'.low < search.high - search.low]_vars

\* ---- C23

\* C23: dropBox's loop terminates for every finite starting y, because every
\* iteration that finds no collision tests a strictly lower position than
\* the one before it.
C23_DropDescends ==
    [][(pc = "dropping" /\ pc' = "dropping"
            /\ dropping'.iterations > dropping.iterations) =>
          dropping'.testY < dropping.testY]_vars

\* ---- C24

StabilityCalled == pc = "stability" /\ calls # <<>>

\* The supported share of b's footprint against the boxes p, in thousandths
\* and at most 1000 (the face coordinates here are multiples of 0.125).
SupportPerMille(b, p) ==
    Min2(1000, (1000 * (SupportSum4(b, p, 1) \div 5000))
                    \div ((4 * b.width * b.depth) \div 5000))

OnFloor(b) == Abs(MinY2(b)) < 2 * 100

\* C24: calculateStability returns 1.0 when the box's bottom face is within
\* 0.1 of the floor; otherwise it returns r = min(1, S/A), halved when
\* r < 0.5, where A is the footprint area and S sums the footprint overlap
\* with every placed box whose top face is within 0.5 of the box's bottom
\* face.  So an elevated box that is inside the container and collides with
\* nothing passes isValidPlacement with minStability 0.2 exactly when r is at
\* least 0.4.
C24_Stability ==
    StabilityCalled =>
        LET c == calls[1]
            r == SupportPerMille(c.box, placedBoxes)
            clear == /\ Inside(c.box, currentContainer)
                     /\ \A i \in 1..Len(placedBoxes) :
                            ~Overlaps(c.box, placedBoxes[i])
        IN  /\ OnFloor(c.box) => c.stability = 1000
            /\ ~OnFloor(c.box) =>
                  c.stability = IF r < 500 THEN r \div 2 ELSE r
            /\ Elevated(c.box) => (c.valid <=> (clear /\ r >= 400))
            /\ ~Elevated(c.box) => (c.valid <=> clear)

\* An elevated box with exactly 0.4 of its footprint supported passed, its
\* stability being 0.2.
C24_Witness ==
    /\ StabilityCalled
    /\ Elevated(calls[1].box)
    /\ SupportPerMille(calls[1].box, placedBoxes) = 400
    /\ calls[1].stability = 200
    /\ calls[1].valid

\* An elevated box with 0.3 of its footprint supported, clear of everything,
\* was rejected.
C24_WitnessRejected ==
    /\ StabilityCalled
    /\ Elevated(calls[1].box)
    /\ SupportPerMille(calls[1].box, placedBoxes) = 300
    /\ Inside(calls[1].box, currentContainer)
    /\ ~calls[1].valid

\* ---- C25

\* C25: the worker of PackingOptimizer.js returns the same container and the
\* same placements as the worker of optimizer.worker.js run with rotation
\* disabled, searchAttempts = finalAttempts = 3 and noise disabled.
C25_SimpleIsSubset ==
    (/\ Completed
     /\ calls # <<>>
     /\ params \in SubsetParams)
        => /\ calls[1].container = Result.container
           /\ calls[1].placedBoxes = Result.placedBoxes

\* ---- C26

\* C26: the number of boxes in the returned result is never smaller than the
\* number placed by the best attempt of the final placement pass.
C26_ResultKeepsBest ==
    (Completed /\ params.kind = "ok") => Len(Placed) >= Len(bestPlaced)

\* ---- C27

\* Run i's terminal message arrives in this step.
Receives(i) == runs[i].at = "worker" /\ runs'[i].at # "worker"

\* C27: on an error message or a complete message whose result has success
\* false the caller leaves appState.container unchanged, sets placedBoxes to
\* the empty list, with placedCount 0 and an error text in the stats; after
\* every terminal message, success or failure, isOptimizing is false and the
\* worker has been terminated.
C27_TerminalMessage ==
    [][\A i \in 1..Len(runs) : Receives(i) =>
          LET msg == runs'[i].message
          IN  /\ msg.type \in {"complete", "error"}
              /\ (msg.type = "error" \/ ~msg.result.success) =>
                    /\ appState'.container = appState.container
                    /\ appState'.placedBoxes = <<>>
                    /\ appState'.optimizationStats.placedCount = 0
                    /\ appState'.optimizationStats.error
                          \in {"boxes is not iterable",
                               "Could not find valid packing"}
              /\ isOptimizing' = FALSE
              /\ runs'[i].terminated]_vars

\* A run failed with an error message after another run's result had been
\* applied: the container is the earlier result's, the placed boxes are gone.
C27_Witness ==
    /\ pc = "page"
    /\ Len(runs) = 2
    /\ runs[1].message.type = "complete" /\ runs[1].message.result.success
    /\ runs[1].message.result.placedBoxes # <<>>
    /\ runs[2].message.type = "error"
    /\ appState.container = runs[1].message.result.container
    /\ appState.container # NewAppState.container
    /\ appState.placedBoxes = <<>>
    /\ appState.optimizationStats.placedCount = 0
    /\ ~isOptimizing

\* A complete message without success was handled the same way.
C27_WitnessNoSuccess ==
    /\ pc = "page"
    /\ Len(runs) = 1
    /\ runs[1].message.type = "complete" /\ ~runs[1].message.result.success
    /\ runs[1].terminated
    /\ appState.container = NewAppState.container
    /\ appState.optimizationStats.error = "Could not find valid packing"
    /\ ~isOptimizing

\* ---- C28

\* C28: with useNoise false attemptPacking returns the same placements for
\* every seed.  In a run without noise every attempt processes the boxes in
\* the one order of the volume sort, the attempts of the final pass all
\* return the same placements, and a probe whose first attempt has failed
\* fails with every later attempt.
C28_SeedWithoutNoise ==
    /\ []((pc = "final" /\ ~mcConfig.useNoise) =>
            \A i \in 1..Len(finalTrail) : \A j \in 1..Len(finalTrail) :
                finalTrail[i].p = finalTrail[j].p)
    /\ [][(/\ pc = "probe"
           /\ ~mcConfig.useNoise
           /\ search.attempt >= 1
           /\ pc' = "search") => search'.high = search.high]_vars
    /\ [][(/\ pc \in {"probe", "final", "expand"}
           /\ ~mcConfig.useNoise
           /\ lastAttempt' # lastAttempt)
             => lastAttempt'.order = sortByVolume(params.boxes)]_vars

\* The final pass made two attempts without noise, seeds 0 and 1, on boxes
\* of different volumes, and both placed the same boxes at the same places.
C28_Witness ==
    /\ pc = "final"
    /\ ~mcConfig.useNoise
    /\ Len(finalTrail) = 2
    /\ finalTrail[1].seed = 0 /\ finalTrail[2].seed = 1
    /\ finalTrail[1].p = finalTrail[2].p
    /\ finalTrail[1].p # <<>>
    /\ \E i \in 1..Len(params.boxes) :
         volume(params.boxes[i]) # volume(params.boxes[1])

\* A probe without noise is at its second attempt: the attempt with seed 0
\* did not place every box.
C28_WitnessProbe ==
    /\ pc = "probe"
    /\ ~mcConfig.useNoise
    /\ search.attempt = 1
    /\ mcConfig.searchAttempts = 2
    /\ lastAttempt.seed = 0

\* ---- C29

\* The width, height and depth of p are those of b in some order.
DimsPermuted(p, b) ==
    << p.width, p.height, p.depth >> \in
        { << b.width, b.height, b.depth >>, << b.width, b.depth, b.height >>,
          << b.height, b.width, b.depth >>, << b.height, b.depth, b.width >>,
          << b.depth, b.width, b.height >>, << b.depth, b.height, b.width >> }

\* C29: in every attemptPacking result each input box appears at most once:
\* the placed boxes have distinct instanceIds, each is the instanceId of an
\* input box whose definitionId it keeps and whose width, height and depth
\* it has in some order, in the same order when rotation is disabled; no more
\* boxes are placed than were given, and the input list is as it was.
C29_PlacedFromInput ==
    \A c \in 1..Len(calls) :
        LET in == calls[c].boxes
            out == calls[c].placed
        IN  /\ Len(out) <= Len(in)
            /\ \A i, j \in 1..Len(out) :
                  i # j => out[i].instanceId # out[j].instanceId
            /\ \A i \in 1..Len(out) : \E k \in 1..Len(in) :
                  /\ in[k].instanceId = out[i].instanceId
                  /\ in[k].definitionId = out[i].definitionId
                  /\ DimsPermuted(out[i], in[k])
                  /\ ~calls[c].allowRotation =>
                        /\ out[i].width = in[k].width
                        /\ out[i].height = in[k].height
                        /\ out[i].depth = in[k].depth
            /\ params.boxes = in

\* With rotation the bar was placed upright under the cube; in a later call
\* without rotation, on the same list, it was left out.
C29_Witness ==
    /\ Len(calls) >= 2
    /\ calls[1].boxes = CubeAndBar
    /\ calls[1].allowRotation
    /\ Len(calls[1].placed) = 2
    /\ calls[1].placed[1].instanceId = 1
    /\ calls[1].placed[1].height = 2000 /\ calls[1].placed[1].width = 1000
    /\ ~calls[2].allowRotation
    /\ Len(calls[2].placed) = 1
    /\ calls[2].placed[1].instanceId = 0

\* ---- C30

\* Axis dim of container c spans the unrotated extent of every input box.
SpansUnrotated(c, dim) ==
    \A i \in 1..Len(params.boxes) : c[dim] >= params.boxes[i][dim]

\* C30: for a non-empty box list every unconstrained axis of the returned
\* container is at least the largest unrotated box extent on that axis, with
\* rotation enabled too: the volume estimate, the lower bound of the binary
\* search and every later size of the axis are at least that extent.
C30_UnrotatedLowerBound ==
    (params.kind = "ok" /\ params.boxes # <<>>) =>
        \A dim \in {"width", "height", "depth"} :
            isFree(params.constraints, dim) =>
                /\ pc \in {"dims", "search", "probe", "final", "expand", "done"}
                      => SpansUnrotated(currentContainer, dim)
                /\ (pc \in {"search", "probe"} /\ unconstrainedDims[dimIndex] = dim)
                      => \A i \in 1..Len(params.boxes) :
                            /\ search.low >= params.boxes[i][dim]
                            /\ search.bestFit >= params.boxes[i][dim]
                /\ Completed => SpansUnrotated(Result.container, dim)

\* With rotation enabled the 1 x 2 x 1 column was placed lying, 1 high, and
\* the returned height is 2 or more.
C30_Witness ==
    /\ Completed
    /\ params.kind = "ok"
    /\ params.allowRotation
    /\ params.boxes = << Box(0, 1, 1000, 2000, 1000) >>
    /\ isFree(params.constraints, "height")
    /\ Len(Placed) = 1
    /\ Placed[1].height = 1000
    /\ Result.container.height >= 2000

=============================================================================
